---- MODULE Spec2Model ----
(***************************************************************************)
(* Model of the embedded-tree engine of network_processing.py: the Network *)
(* wrapper (construction, leaf selection, the all_trees expansion, the     *)
(* per-selection cache of process) and EmbeddedTrees.generate (reduction   *)
(* of every unsuppressed tree and the multiset of their newick strings).   *)
(*                                                                         *)
(* Strings are sequences of one-character strings.  A phylogenetic network *)
(* is a record [succ, label]: succ maps every node to the ordered sequence *)
(* of its children (networkx adjacency order), label maps every node to    *)
(* its label, NoLabel standing for Python's None.  The phylonetwork        *)
(* library is not part of the repository; its operations are modelled from *)
(* the contract section 3 of the specification states for it.              *)
(*                                                                         *)
(* The second part models drspr.py: rspr (the run of the external          *)
(* executable and the reading of its output), the Tree class,              *)
(* rspr_pairwise, calculate_drspr, and the branch of print_drspr on the    *)
(* length of the distances.                                                *)
(*                                                                         *)
(* The third part models rspr_graph.py: RsprGraph.__init__ with            *)
(* check_validity, spr_dense_graph and create_graph, the start of the      *)
(* search in RsprGraph.text, and hamiltonian_cycle, whose recursion is the *)
(* stack of its active calls.  A dict is the sequence of its items and a   *)
(* networkx graph is a record [nodes, adj], both in insertion order.       *)
(***************************************************************************)
EXTENDS Integers, Sequences, FiniteSets, TLC

\* ------------------------------------------------------------------ bounds
\* Longest text typed into the leaf-selection field.
MaxInputLen == 3
\* Most EmbeddedTrees objects generated on one Network (cache entries).
MaxGenerated == 2
\* Most tree strings in one call of calculate_drspr.
MaxTrees == 3
\* The most trees an RsprGraph is made from.
MaxGraphTrees == 3
\* The most nodes of a graph hamiltonian_cycle is called on.
MaxNodes == 3

\* -------------------------------------------------------------- characters
\* The characters a typed selection is made of.
InputChars == {"1", "a", ",", " "}

\* Code point of a character (Python compares strings by code point).
Ord(c) ==
    CASE c = " " -> 32
      [] c = "#" -> 35
      [] c = "(" -> 40
      [] c = ")" -> 41
      [] c = "," -> 44
      [] c = "0" -> 48
      [] c = "1" -> 49
      [] c = "2" -> 50
      [] c = "3" -> 51
      [] c = "4" -> 52
      [] c = "5" -> 53
      [] c = "6" -> 54
      [] c = "7" -> 55
      [] c = "8" -> 56
      [] c = "9" -> 57
      [] c = ";" -> 59
      [] c = "A" -> 65
      [] c = "H" -> 72
      [] c = "a" -> 97
      [] OTHER -> 0

\* Python's str < str: lexicographic by code point, a proper prefix first.
RECURSIVE StrLess(_, _)
StrLess(s, t) ==
    IF t = <<>> THEN FALSE
    ELSE IF s = <<>> THEN TRUE
    ELSE IF Ord(Head(s)) # Ord(Head(t)) THEN Ord(Head(s)) < Ord(Head(t))
    ELSE StrLess(Tail(s), Tail(t))

\* list.sort() on a list of strings (insertion into an already sorted list).
RECURSIVE InsertSorted(_, _)
InsertSorted(x, sorted) ==
    IF sorted = <<>> THEN <<x>>
    ELSE IF StrLess(x, Head(sorted)) THEN <<x>> \o sorted
    ELSE <<Head(sorted)>> \o InsertSorted(x, Tail(sorted))

RECURSIVE SortStrings(_)
SortStrings(list) ==
    IF list = <<>> THEN <<>>
    ELSE InsertSorted(Head(list), SortStrings(Tail(list)))

\* str.split(","): the fields between the commas; "" splits into [""].
RECURSIVE SplitComma(_, _)
SplitComma(s, field) ==
    IF s = <<>> THEN <<field>>
    ELSE IF Head(s) = "," THEN <<field>> \o SplitComma(Tail(s), <<>>)
    ELSE SplitComma(Tail(s), Append(field, Head(s)))

\* str.strip(): leading and trailing whitespace removed.
RECURSIVE LStrip(_)
LStrip(s) ==
    IF s # <<>> /\ Head(s) = " " THEN LStrip(Tail(s)) ELSE s

RECURSIVE RStrip(_)
RStrip(s) ==
    IF s # <<>> /\ s[Len(s)] = " " THEN RStrip(SubSeq(s, 1, Len(s) - 1)) ELSE s

Strip(s) == RStrip(LStrip(s))

\* ----------------------------------------------------------------- helpers
Range(seq) == {seq[i] : i \in 1..Len(seq)}

RECURSIVE SetToSeq(_)
\* The elements of a set of numbers, ascending.
SetToSeq(S) ==
    IF S = {} THEN <<>>
    ELSE LET m == CHOOSE x \in S : \A y \in S : x <= y
         IN <<m>> \o SetToSeq(S \ {m})

\* ------------------------------------------- PhylogeneticNetwork (library)
\* Python's None as a node's label.
NoLabel == <<>>

NodesOf(net) == DOMAIN net.succ

\* predecessors(u): the parents of u.
Predecessors(net, u) == SetToSeq({p \in NodesOf(net) : u \in Range(net.succ[p])})

InDegree(net, u) == Cardinality({p \in NodesOf(net) : u \in Range(net.succ[p])})

OutDegree(net, u) == Len(net.succ[u])

\* leaves: the nodes without children.
LeavesOf(net) == {u \in NodesOf(net) : net.succ[u] = <<>>}

\* reticulations: the nodes with two or more parents, in node order.
ReticulationsOf(net) == SetToSeq({u \in NodesOf(net) : InDegree(net, u) >= 2})

\* labeled_nodes: the nodes that carry a label.
LabeledNodes(net) == {u \in NodesOf(net) : net.label[u] # NoLabel}

\* remove_edge(p, c).
RemoveEdge(net, p, c) ==
    [net EXCEPT !.succ[p] = SelectSeq(net.succ[p], LAMBDA x : x # c)]

\* remove_node(u): u goes, with every edge into it and out of it.
RemoveNode(net, u) ==
    LET keep == NodesOf(net) \ {u}
    IN [succ  |-> [v \in keep |-> SelectSeq(net.succ[v], LAMBDA x : x # u)],
        label |-> [v \in keep |-> net.label[v]]]

\* add_edge(p, c) for every c of children: a new edge goes to the end of
\* p's adjacency, an edge already there stays where it is.
RECURSIVE AddEdges(_, _)
AddEdges(adj, children) ==
    IF children = <<>> THEN adj
    ELSE AddEdges(IF Head(children) \in Range(adj) THEN adj
                  ELSE Append(adj, Head(children)),
                  Tail(children))

\* remove_node_and_reconnect(u): every parent of u is connected to every
\* child of u, then u is removed.  On a leaf this removes the leaf only.
RemoveNodeAndReconnect(net, u) ==
    LET parents == Range(Predecessors(net, u))
        joined  == [net EXCEPT !.succ =
                       [v \in NodesOf(net) |->
                           IF v \in parents THEN AddEdges(net.succ[v], net.succ[u])
                           ELSE net.succ[v]]]
    IN RemoveNode(joined, u)

\* An elementary node: in-degree 1 and out-degree 1.
IsElementary(net, u) == InDegree(net, u) = 1 /\ OutDegree(net, u) = 1

RECURSIVE ReconnectAll(_, _)
ReconnectAll(net, nodes) ==
    IF nodes = <<>> THEN net
    ELSE ReconnectAll(RemoveNodeAndReconnect(net, Head(nodes)), Tail(nodes))

\* remove_elementary_nodes(): every node that is elementary when the call
\* starts is removed and its parent reconnected to its child.
RemoveElementaryNodes(net) ==
    ReconnectAll(net, SetToSeq({u \in NodesOf(net) : IsElementary(net, u)}))

\* remove_taxa(labels): the nodes carrying one of the labels lose it.
RemoveTaxa(net, labels) ==
    [net EXCEPT !.label =
        [v \in NodesOf(net) |->
            IF net.label[v] \in labels THEN NoLabel ELSE net.label[v]]]

\* Decimal digits of a node number below 100.
Digit(d) == <<"0", "1", "2", "3", "4", "5", "6", "7", "8", "9">>[d + 1]

DecStr(n) == IF n < 10 THEN <<Digit(n)>> ELSE <<Digit(n \div 10), Digit(n % 10)>>

\* The extended-newick tag of a reticulation.
HybridTag(net, u) ==
    IF InDegree(net, u) >= 2 THEN <<"#", "H">> \o DecStr(u) ELSE <<>>

\* eNewick() below node u: the children in adjacency order inside brackets,
\* then the label; a reticulation is written out at its first occurrence
\* and as its tag alone afterwards.
RECURSIVE ENewickNode(_, _, _)
RECURSIVE ENewickList(_, _, _)
ENewickNode(net, u, visited) ==
    IF u \in visited THEN [str |-> HybridTag(net, u), visited |-> visited]
    ELSE LET v1   == IF InDegree(net, u) >= 2 THEN visited \cup {u} ELSE visited
             kids == ENewickList(net, net.succ[u], v1)
             name == net.label[u] \o HybridTag(net, u)
         IN IF net.succ[u] = <<>> THEN [str |-> name, visited |-> v1]
            ELSE [str |-> <<"(">> \o kids.str \o <<")">> \o name,
                  visited |-> kids.visited]

ENewickList(net, children, visited) ==
    IF children = <<>> THEN [str |-> <<>>, visited |-> visited]
    ELSE LET first == ENewickNode(net, Head(children), visited)
             rest  == ENewickList(net, Tail(children), first.visited)
         IN [str |-> first.str
                     \o (IF Tail(children) = <<>> THEN <<>> ELSE <<",">>)
                     \o rest.str,
             visited |-> rest.visited]

\* The root: the node without a parent.
RootOf(net) == CHOOSE u \in NodesOf(net) : InDegree(net, u) = 0

\* eNewick(): the network's string, ended by a semicolon.
ENewick(net) == ENewickNode(net, RootOf(net), {}).str \o <<";">>

\* PhylogeneticNetwork(net.eNewick()): parsing a network's own string gives
\* back its nodes, edges in adjacency order, and labels.
Reparse(net) == net

\* ------------------------------------------------------------ the inputs
\* A parsed input: nodes 1..n, succ[u] the children of u in the order the
\* string lists them, label[u] the label of u.
Parsed(succ, label) == [parseable |-> TRUE, net |-> [succ |-> succ, label |-> label]]

\* A string the parser rejects (MalformedNewickException).
Unparseable == [parseable |-> FALSE, net |-> [succ |-> <<>>, label |-> <<>>]]

\* (1,A);
TreeTwoLeaves ==
    Parsed(<< <<2, 3>>, <<>>, <<>> >>,
           << NoLabel, <<"1">>, <<"A">> >>)

\* ((1,(a)#H1),(#H1,A));  one reticulation with two parents
OneReticulation ==
    Parsed(<< <<2, 3>>, <<4, 5>>, <<5, 6>>, <<>>, <<7>>, <<>>, <<>> >>,
           << NoLabel, NoLabel, NoLabel, <<"1">>, NoLabel, <<"A">>, <<"a">> >>)

\* (((1,(2)#H2),((#H2,#H3))#H1),(#H1,((3)#H3,4)));  the network of the
\* module's own main block
MainExample ==
    Parsed(<< <<2, 3>>, <<4, 5>>, <<5, 7>>, <<10, 8>>, <<6>>, <<8, 9>>,
              <<9, 13>>, <<11>>, <<12>>, <<>>, <<>>, <<>>, <<>> >>,
           << NoLabel, NoLabel, NoLabel, NoLabel, NoLabel, NoLabel, NoLabel,
              NoLabel, NoLabel, <<"1">>, <<"2">>, <<"3">>, <<"4">> >>)

\* ((1,#H1),(2,#H1),(4,(3)#H1));  one reticulation with three parents
ThreeParents ==
    Parsed(<< <<2, 3, 4>>, <<5, 8>>, <<6, 8>>, <<7, 8>>, <<>>, <<>>, <<>>,
              <<9>>, <<>> >>,
           << NoLabel, NoLabel, NoLabel, NoLabel, <<"1">>, <<"2">>, <<"4">>,
              NoLabel, <<"3">> >>)

\* ((1,3)A,(2));  a labelled internal node and an elementary node
InternalLabel ==
    Parsed(<< <<2, 3>>, <<4, 5>>, <<6>>, <<>>, <<>>, <<>> >>,
           << NoLabel, <<"A">>, NoLabel, <<"1">>, <<"3">>, <<"2">> >>)

\* (,)A;  no leaf carries a label
NoLabelledLeaf ==
    Parsed(<< <<2, 3>>, <<>>, <<>> >>,
           << <<"A">>, NoLabel, NoLabel >>)

\* (1,((2,3),(4,5)));  two cherries under one node
TwoCherries ==
    Parsed(<< <<2, 3>>, <<>>, <<4, 5>>, <<6, 7>>, <<8, 9>>, <<>>, <<>>,
              <<>>, <<>> >>,
           << NoLabel, <<"1">>, NoLabel, NoLabel, NoLabel, <<"2">>, <<"3">>,
              <<"4">>, <<"5">> >>)

\* ((#H1),(1)#H1,a);  an elementary node on one of the two paths into the
\* reticulation
ElementaryParent ==
    Parsed(<< <<2, 3, 5>>, <<3>>, <<4>>, <<>>, <<>> >>,
           << NoLabel, NoLabel, NoLabel, <<"1">>, <<"a">> >>)

\* The networks a Network is constructed from.
NetworkInputs ==
    << TreeTwoLeaves, OneReticulation, MainExample, ThreeParents,
       InternalLabel, NoLabelledLeaf, TwoCherries, ElementaryParent,
       Unparseable >>

\* PhylogeneticNetwork(eNewick=network_newick)
ParseNewick(newick) == NetworkInputs[newick].net

\* The texts typed as a leaf selection: every string of at most MaxInputLen
\* characters.
InputStrings == UNION {[1..n -> InputChars] : n \in 0..MaxInputLen}

\* The texts typed in a session of several selections: those without blanks.
SessionStrings == UNION {[1..n -> InputChars \ {" "}] : n \in 0..MaxInputLen}

\* ----------------------------------------------------------------- state
VARIABLES
    phase,                    \* "new", "ready" (constructed) or "failed"
    error,                    \* the exception the last call raised, or "none"
    newick,                   \* Network._newick: the input constructed from
    original_network,         \* Network._original_network
    current_network,          \* Network._current_network
    current_reticulations,    \* Network._current_reticulations
    current_selected_leaves,  \* Network.current_selected_leaves
    trees_dict,               \* Network.trees_dict: selection -> EmbeddedTrees
    all_trees,                \* the cached property Network.all_trees
    generated,                \* number of EmbeddedTrees.generate() runs
    typed,                    \* the text a single selection is made from
    returned                  \* id of the EmbeddedTrees the last call returned
                              \* (0: the call returned none)

\* The state of one call of drspr.calculate_drspr and of the window that
\* prints its result.
VARIABLES
    drspr_pc,        \* "idle", "pairwise" (inside the loops of
                     \* rspr_pairwise), "returned", "raised" or "printed"
    input_trees,     \* calculate_drspr's argument trees: the tree strings
    tool,            \* the rspr executable the call runs
    pair_i, pair_j,  \* rspr_pairwise: the loop variables i and j
    trees_array,     \* rspr_pairwise and calculate_drspr: trees_array
    distance_array,  \* rspr_pairwise: distance_array
    clusters_array,  \* rspr_pairwise: clusters_array
    distances,       \* calculate_drspr: the first component returned
    clusters,        \* calculate_drspr: the second component returned
    drspr_error,     \* the exception calculate_drspr raised, or "none"
    rspr_calls,      \* the pairs of strings rspr() was called with
    tree_calls,      \* number of Tree(...) constructions
    shown            \* print_drspr: "distance", "matrix" or "nothing"

drspr_vars == << drspr_pc, input_trees, tool, pair_i, pair_j, trees_array,
                 distance_array,
                 clusters_array, distances, clusters, drspr_error,
                 rspr_calls, tree_calls, shown >>

\* The state of one RsprGraph (rspr_graph.py) and of one call of
\* RsprGraph.hamiltonian_cycle.
VARIABLES
    graph_pc,         \* "idle", "adjacency" (in the loop of
                      \* spr_dense_graph), "edges" (in the loops of
                      \* create_graph), "built" (after __init__),
                      \* "searching" (inside hamiltonian_cycle), "done"
                      \* or "raised"
    trees_string,     \* RsprGraph.__init__'s argument
    neighbour_tool,   \* the spr_dense_graph executable the object runs
    tree_label_dict,  \* RsprGraph.tree_label_dict
    valid_trees,      \* RsprGraph.valid_trees
    output_lines,     \* spr_dense_graph: output_lines
    loop_i, loop_k,   \* the places of the loops of spr_dense_graph and
                      \* create_graph in what they run over
    adjacency_dict,   \* RsprGraph.adjacency_dict
    graph,            \* RsprGraph.graph, or hamiltonian_cycle's graph
    root,             \* hamiltonian_cycle: root
    num_nodes,        \* hamiltonian_cycle: num_nodes
    stack,            \* the active calls of hamiltonian_cycle, outermost
                      \* first: current_vertex, path and the place k in
                      \* the loop over the neighbours (0: at line 258)
    pending,          \* the value a call has just returned to its caller
    hamilton_path     \* RsprGraph.text: hamilton_path

graph_vars == << graph_pc, trees_string, neighbour_tool, tree_label_dict,
                 valid_trees, output_lines, loop_i, loop_k, adjacency_dict, graph, root, num_nodes, stack,
                 pending, hamilton_path >>

vars == << phase, error, newick, original_network, current_network,
           current_reticulations, current_selected_leaves, trees_dict,
           all_trees, generated, typed, returned, drspr_vars, graph_vars >>

\* Python's None where a tuple of vertices may stand.
None == [isNone |-> TRUE, path |-> <<>>]

\* No value is on its way to a caller.
Nothing == [isNone |-> FALSE, path |-> <<>>]

\* A graph without nodes: nx.Graph().
EmptyGraph == [nodes |-> <<>>, adj |-> <<>>]

\* No RsprGraph has been made and hamiltonian_cycle has not been called.
GraphIdle ==
    /\ graph_pc = "idle"
    /\ trees_string = <<>>
    /\ neighbour_tool = "none"
    /\ tree_label_dict = <<>>
    /\ valid_trees = <<>>
    /\ output_lines = <<>>
    /\ loop_i = 0
    /\ loop_k = 0
    /\ adjacency_dict = <<>>
    /\ graph = EmptyGraph
    /\ root = <<>>
    /\ num_nodes = 0
    /\ stack = <<>>
    /\ pending = Nothing
    /\ hamilton_path = None

\* No call of calculate_drspr has been made.
DrsprIdle ==
    /\ drspr_pc = "idle"
    /\ input_trees = <<>>
    /\ tool = "none"
    /\ pair_i = 0
    /\ pair_j = 0
    /\ trees_array = <<>>
    /\ distance_array = <<>>
    /\ clusters_array = <<>>
    /\ distances = <<>>
    /\ clusters = <<>>
    /\ drspr_error = "none"
    /\ rspr_calls = {}
    /\ tree_calls = 0
    /\ shown = "nothing"

\* A network object before it is assigned.
NoNetwork == [succ |-> <<>>, label |-> <<>>]

\* The cached property before its first access.
NotComputed == [computed |-> FALSE, value |-> <<>>]

\* ------------------------------------------------------------- Network
\* Network.labelled_leaves: the labels of the labelled leaves of the
\* original network, sorted.
LabelledLeaves(original) ==
    LET leaves == SetToSeq(LeavesOf(original))
        labelled == SelectSeq(leaves, LAMBDA u : original.label[u] # NoLabel)
    IN SortStrings([i \in 1..Len(labelled) |-> original.label[labelled[i]]])

\* Network.num_reticulations
NumReticulations(original) == Len(ReticulationsOf(original))

\* set_current_selected_leaves without the strip of the items.
RequestedLeavesNoStrip(arg, labelled) ==
    IF arg.isStr
    THEN SortStrings(SplitComma(arg.text, <<>>))
    ELSE labelled

\* Lines 170-175 of set_current_selected_leaves: a string is split at the
\* commas, each item stripped, the items sorted; anything else stands for
\* all labelled leaves.
RequestedLeaves(arg, labelled) ==
    IF arg.isStr
    THEN LET items == SplitComma(arg.text, <<>>)
         IN SortStrings([i \in 1..Len(items) |-> Strip(items[i])])
    ELSE labelled

\* Lines 177-182: the requested leaves that are labelled leaves.
ValidLeaves(selected, labelled) ==
    SelectSeq(selected, LAMBDA leaf : leaf \in Range(labelled))

\* set_current_selected_leaves storing the valid leaves before it tests
\* whether there are any.
SelectionResultStoredFirst(arg, original, selection) ==
    LET labelled == LabelledLeaves(original)
        valid    == ValidLeaves(RequestedLeaves(arg, labelled), labelled)
    IN IF valid = <<>>
       THEN [raised |-> "InvalidLeaves", selection |-> valid]
       ELSE [raised |-> "none", selection |-> SortStrings(valid)]

\* Lines 184-188: what set_current_selected_leaves leaves behind.
SelectionResult(arg, original, selection) ==
    LET labelled == LabelledLeaves(original)
        valid    == ValidLeaves(RequestedLeaves(arg, labelled), labelled)
    IN IF valid = <<>>
       THEN [raised |-> "InvalidLeaves", selection |-> selection]
       ELSE [raised |-> "none", selection |-> SortStrings(valid)]

\* Network.retain_labelled_leaves: the labels of the original network that
\* are not labels of leaves are removed from the current network.
RetainLabelledLeaves(original, current) ==
    LET labelled == LabelledLeaves(original)
        labels_to_remove ==
            {original.label[u] : u \in
                {v \in LabeledNodes(original) :
                    original.label[v] \notin Range(labelled)}}
    IN RemoveTaxa(current, labels_to_remove)

\* all_trees without the deep copy: the networks of one generation are one
\* object, which loses every edge into the reticulation.
RECURSIVE RemoveFromEachAliased(_, _, _)
RemoveFromEachAliased(prev_networks, parent, reticulation) ==
    IF prev_networks = <<>> THEN <<>>
    ELSE <<[Head(prev_networks) EXCEPT !.succ =
               [v \in DOMAIN Head(prev_networks).succ |->
                   SelectSeq(Head(prev_networks).succ[v],
                             LAMBDA x : x # reticulation)]]>>
         \o RemoveFromEachAliased(Tail(prev_networks), parent, reticulation)

\* The inner loops of all_trees (lines 222-226): for every parent of the
\* reticulation, a copy of every previous network with that edge removed.
RECURSIVE RemoveFromEach(_, _, _)
RemoveFromEach(prev_networks, parent, reticulation) ==
    IF prev_networks = <<>> THEN <<>>
    ELSE <<RemoveEdge(Head(prev_networks), parent, reticulation)>>
         \o RemoveFromEach(Tail(prev_networks), parent, reticulation)

RECURSIVE ForEachParent(_, _, _)
ForEachParent(parents, prev_networks, reticulation) ==
    IF parents = <<>> THEN <<>>
    ELSE RemoveFromEach(prev_networks, Head(parents), reticulation)
         \o ForEachParent(Tail(parents), prev_networks, reticulation)

\* The outer loop of all_trees (lines 218-228), from reticulation i on.
RECURSIVE ExpandFrom(_, _, _, _)
ExpandFrom(i, prev_networks, current, reticulations) ==
    IF i > Len(reticulations) THEN prev_networks
    ELSE ExpandFrom(i + 1,
                    ForEachParent(Predecessors(current, reticulations[i]),
                                  prev_networks, reticulations[i]),
                    current, reticulations)

\* all_trees with the loop over the reticulations starting one too late.
AllTreesSkipFirst(current, reticulations) ==
    ExpandFrom(2, <<current>>, current, reticulations)

\* Network.all_trees
AllTrees(current, reticulations) ==
    ExpandFrom(1, <<current>>, current, reticulations)

\* --------------------------------------------------------- EmbeddedTrees
\* The orders in which Python may iterate over a set of nodes.
HashSeeds == {"ascending", "descending"}

\* for x in a_set: the elements in the order the seed gives.
RECURSIVE Reverse(_)
Reverse(seq) ==
    IF seq = <<>> THEN <<>> ELSE Append(Reverse(Tail(seq)), Head(seq))

IterationOrder(S, seed) ==
    IF seed = "ascending" THEN SetToSeq(S) ELSE Reverse(SetToSeq(S))

\* remove_unselected_leaves leaving the removal loop after its first leaf.
RemoveFirstUnselectedLeaf(tree, selected_leaves, seed) ==
    LET unselected_leaves ==
            {leaf \in LeavesOf(tree) : tree.label[leaf] \notin Range(selected_leaves)}
        order == IterationOrder(unselected_leaves, seed)
    IN RemoveElementaryNodes(
           ReconnectAll(tree, IF order = <<>> THEN <<>> ELSE <<Head(order)>>))

\* EmbeddedTrees.remove_unselected_leaves
RemoveUnselectedLeaves(tree, selected_leaves, seed) ==
    LET unselected_leaves ==
            {leaf \in LeavesOf(tree) : tree.label[leaf] \notin Range(selected_leaves)}
    IN RemoveElementaryNodes(
           ReconnectAll(tree, IterationOrder(unselected_leaves, seed)))

\* EmbeddedTrees.remove_dummy_leaves
RemoveDummyLeaves(tree, seed) ==
    LET unlabelled_leaves ==
            {leaf \in LeavesOf(tree) : tree.label[leaf] = NoLabel}
    IN RemoveElementaryNodes(
           ReconnectAll(tree, IterationOrder(unlabelled_leaves, seed)))

\* Lines 371-377 of generate: one unsuppressed tree reduced.
ReduceTree(unsuppressed_tree, selected_leaves, seed) ==
    RemoveDummyLeaves(
        RemoveUnselectedLeaves(
            RemoveElementaryNodes(Reparse(unsuppressed_tree)),
            selected_leaves, seed),
        seed)

\* generate with the count of a newick seen before reset to 1.
CountTreeNoIncrement(trees_data, tree) ==
    LET tree_newick == ENewick(tree)
    IN IF tree_newick \in DOMAIN trees_data
       THEN [trees_data EXCEPT ![tree_newick] =
                [count |-> 1, trees |-> Append(@.trees, tree)]]
       ELSE trees_data @@ (tree_newick :> [count |-> 1, trees |-> <<tree>>])

\* Lines 379-389 of generate: the reduced tree counted under its newick.
\* An entry is the list [count, tree, tree, ...]: count is its element 0,
\* trees are the elements appended after it.  unique_tree_newicks holds
\* exactly the keys of trees_data.
CountTree(trees_data, tree) ==
    LET tree_newick == ENewick(tree)
    IN IF tree_newick \in DOMAIN trees_data
       THEN [trees_data EXCEPT ![tree_newick] =
                [count |-> @.count + 1, trees |-> Append(@.trees, tree)]]
       ELSE trees_data @@ (tree_newick :> [count |-> 1, trees |-> <<tree>>])

\* The loop of generate (line 370) from tree i of all_trees on.
RECURSIVE GenerateFrom(_, _, _, _, _)
GenerateFrom(i, trees_data, trees, selected_leaves, seed) ==
    IF i > Len(trees) THEN trees_data
    ELSE GenerateFrom(i + 1,
                      CountTree(trees_data,
                                ReduceTree(trees[i], selected_leaves, seed)),
                      trees, selected_leaves, seed)

RECURSIVE Pow2(_)
Pow2(n) == IF n = 0 THEN 1 ELSE 2 * Pow2(n - 1)

\* EmbeddedTrees(network, leaves) followed by generate().
Generate(id, trees, num_reticulations, selected_leaves, seed) ==
    [id          |-> id,
     leaves      |-> selected_leaves,
     total_trees |-> Pow2(num_reticulations),
     trees_data  |-> GenerateFrom(1, <<>>, trees, selected_leaves, seed)]

\* ---------------------------------------------------------------- actions
Init ==
    /\ phase = "new"
    /\ error = "none"
    /\ newick = 0
    /\ original_network = NoNetwork
    /\ current_network = NoNetwork
    /\ current_reticulations = <<>>
    /\ current_selected_leaves = <<>>
    /\ trees_dict = <<>>
    /\ all_trees = NotComputed
    /\ generated = 0
    /\ typed = <<>>
    /\ returned = 0
    /\ DrsprIdle
    /\ GraphIdle

\* __init__ with both attributes bound to one parsed object.
ConstructedAliased(network_newick) ==
    LET original == ParseNewick(network_newick)
        suppressed == RemoveElementaryNodes(ParseNewick(network_newick))
        selection == SelectionResult([isStr |-> FALSE], original, <<>>)
        current == RetainLabelledLeaves(original, suppressed)
    IN [raised |-> selection.raised,
        original |-> current,
        current |-> current,
        selection |-> selection.selection,
        reticulations |-> ReticulationsOf(current)]

\* __init__ turning the failure of the default selection into the
\* parser's exception.
ConstructedAsMalformed(network_newick) ==
    LET original == ParseNewick(network_newick)
        suppressed == RemoveElementaryNodes(ParseNewick(network_newick))
        selection == SelectionResult([isStr |-> FALSE], original, <<>>)
        current == RetainLabelledLeaves(original, suppressed)
    IN [raised |-> IF selection.raised = "none" THEN "none"
                   ELSE "MalformedNewickException",
        original |-> original,
        current |-> current,
        selection |-> selection.selection,
        reticulations |-> ReticulationsOf(current)]

\* What Network.__init__ builds from a parseable input.
Constructed(network_newick) ==
    LET original == ParseNewick(network_newick)
        suppressed == RemoveElementaryNodes(ParseNewick(network_newick))
        selection == SelectionResult([isStr |-> FALSE], original, <<>>)
        current == RetainLabelledLeaves(original, suppressed)
    IN [raised |-> selection.raised,
        original |-> original,
        current |-> current,
        selection |-> selection.selection,
        reticulations |-> ReticulationsOf(current)]

\* Network(network_newick, figure, graphics)
Construct(network_newick) ==
    /\ phase = "new"
    /\ newick' = network_newick
    /\ IF ~NetworkInputs[network_newick].parseable
       THEN /\ phase' = "failed"
            /\ error' = "MalformedNewickException"
            /\ UNCHANGED << original_network, current_network,
                            current_reticulations, current_selected_leaves >>
       ELSE LET made == Constructed(network_newick)
            IN IF made.raised # "none"
               THEN /\ phase' = "failed"
                    /\ error' = made.raised
                    /\ UNCHANGED << original_network, current_network,
                                    current_reticulations,
                                    current_selected_leaves >>
               ELSE /\ phase' = "ready"
                    /\ error' = "none"
                    /\ original_network' = made.original
                    /\ current_network' = made.current
                    /\ current_reticulations' = made.reticulations
                    /\ current_selected_leaves' = made.selection
    /\ UNCHANGED << trees_dict, all_trees, generated, typed, returned >>
    /\ UNCHANGED << drspr_vars, graph_vars >>

\* network.set_current_selected_leaves(arg)
SetCurrentSelectedLeaves(arg) ==
    /\ phase = "ready"
    /\ LET result == SelectionResult(arg, original_network, current_selected_leaves)
       IN /\ error' = result.raised
          /\ current_selected_leaves' = result.selection
    /\ returned' = 0
    /\ UNCHANGED << phase, newick, original_network, current_network,
                    current_reticulations, trees_dict, all_trees, generated,
                    typed >>
    /\ UNCHANGED << drspr_vars, graph_vars >>

\* The value of the cached property after an access.
Accessed(cache, current, reticulations) ==
    IF cache.computed THEN cache
    ELSE [computed |-> TRUE, value |-> AllTrees(current, reticulations)]

\* network.total_trees
TotalTrees ==
    /\ phase = "ready"
    /\ all_trees' = Accessed(all_trees, current_network, current_reticulations)
    /\ error' = "none"
    /\ returned' = 0
    /\ UNCHANGED << phase, newick, original_network, current_network,
                    current_reticulations, current_selected_leaves,
                    trees_dict, generated, typed >>
    /\ UNCHANGED << drspr_vars, graph_vars >>

\* process without the look-up: every call generates.
CacheHitNever(selection, dict) == FALSE

\* Line 242 of process: the current selection is a key of trees_dict.
CacheHit(selection, dict) == selection \in DOMAIN dict

\* network.process()
Process(seed) ==
    /\ phase = "ready"
    /\ error' = "none"
    /\ IF CacheHit(current_selected_leaves, trees_dict)
       THEN /\ returned' = trees_dict[current_selected_leaves].id
            /\ UNCHANGED << trees_dict, all_trees, generated >>
       ELSE /\ generated < MaxGenerated
            /\ LET cache == Accessed(all_trees, current_network,
                                     current_reticulations)
                   trees == Generate(generated + 1, cache.value,
                                     NumReticulations(original_network),
                                     current_selected_leaves, seed)
               IN /\ all_trees' = cache
                  /\ trees_dict' = (trees.leaves :> trees) @@ trees_dict
                  /\ returned' = trees.id
            /\ generated' = generated + 1
    /\ UNCHANGED << phase, newick, original_network, current_network,
                    current_reticulations, current_selected_leaves, typed >>
    /\ UNCHANGED << drspr_vars, graph_vars >>

Next ==
    \/ \E network_newick \in 1..Len(NetworkInputs) : Construct(network_newick)
    \/ \E text \in SessionStrings :
           SetCurrentSelectedLeaves([isStr |-> TRUE, text |-> text])
    \/ SetCurrentSelectedLeaves([isStr |-> FALSE])
    \/ TotalTrees
    \/ \E seed \in HashSeeds : Process(seed)

Spec == Init /\ [][Next]_vars

\* One selection from one typed text: the text is drawn at the start, a
\* network is constructed and the text is passed to
\* set_current_selected_leaves.
InitSelect ==
    /\ phase = "new"
    /\ error = "none"
    /\ newick = 0
    /\ original_network = NoNetwork
    /\ current_network = NoNetwork
    /\ current_reticulations = <<>>
    /\ current_selected_leaves = <<>>
    /\ trees_dict = <<>>
    /\ all_trees = NotComputed
    /\ generated = 0
    /\ typed \in InputStrings
    /\ returned = 0
    /\ DrsprIdle
    /\ GraphIdle

SelectTyped == SetCurrentSelectedLeaves([isStr |-> TRUE, text |-> typed])

NextSelect ==
    \/ \E network_newick \in 1..Len(NetworkInputs) : Construct(network_newick)
    \/ SelectTyped

SpecSelect == InitSelect /\ [][NextSelect]_vars

\* ----------------------------------------------------------- drspr.py: rspr
\* The characters str.strip() and str.split() treat as whitespace.
IsSpace(c) == c \in {" ", "\n", "\t"}

RECURSIVE LStripSpace(_)
LStripSpace(s) ==
    IF s # <<>> /\ IsSpace(Head(s)) THEN LStripSpace(Tail(s)) ELSE s

RECURSIVE RStripSpace(_)
RStripSpace(s) ==
    IF s # <<>> /\ IsSpace(s[Len(s)])
    THEN RStripSpace(SubSeq(s, 1, Len(s) - 1))
    ELSE s

\* out.strip()
StripSpace(s) == RStripSpace(LStripSpace(s))

\* out.split("\n"): the lines; "" splits into [""].
RECURSIVE SplitLines(_, _)
SplitLines(s, line) ==
    IF s = <<>> THEN <<line>>
    ELSE IF Head(s) = "\n" THEN <<line>> \o SplitLines(Tail(s), <<>>)
    ELSE SplitLines(Tail(s), Append(line, Head(s)))

\* str.split(): the tokens between runs of whitespace, none of them empty.
RECURSIVE SplitSpace(_, _)
SplitSpace(s, token) ==
    LET ended == IF token = <<>> THEN <<>> ELSE <<token>>
    IN IF s = <<>> THEN ended
       ELSE IF IsSpace(Head(s)) THEN ended \o SplitSpace(Tail(s), <<>>)
       ELSE SplitSpace(Tail(s), Append(token, Head(s)))

\* list[k] is defined for -len <= k < len; otherwise IndexError.
PyInRange(list, k) == -Len(list) <= k /\ k < Len(list)

\* list[k]: a negative k counts from the end of the list.
PyItem(list, k) == IF k < 0 THEN list[Len(list) + k + 1] ELSE list[k + 1]

\* distance.index("="): the position, from 0, of the first "=";
\* -1 stands for the ValueError of a string without "=".
EqualsIndex(s) ==
    LET at == {k \in 1..Len(s) : s[k] = "="}
    IN IF at = {} THEN -1
       ELSE (CHOOSE k \in at : \A m \in at : k <= m) - 1

\* The lines the executable prints for a pair of trees at distance d:
\* the forest line, a second forest line, and the line of the distance.
GoodOutput(d) ==
    <<"\n", "T", "\n",
      "F", ":", " ", "a", " ", "b", " ", "c", "\n",
      "G", ":", " ", "a", "\n",
      "x", " ", "d", "=">> \o d \o <<"\n">>

\* The executables a call may find at resource_path("rspr"), named by
\* what they print for two different trees.
Tools ==
    {"exact", "far", "twoequals", "equalsearlier", "twolines", "oneline"}

\* executable.communicate(input=input_string): stdout and stderr of the
\* executable for the two trees of input_string.
ToolRun(executable, tree1, tree2) ==
    IF tree1 = tree2
    THEN [out |-> GoodOutput(<<"0">>), err |-> ""]
    ELSE CASE executable = "exact" ->
                  [out |-> GoodOutput(<<"1">>), err |-> ""]
           [] executable = "far" ->
                  [out |-> GoodOutput(<<"1", "2">>), err |-> "warning"]
           [] executable = "twoequals" ->
                  [out |-> GoodOutput(<<"1", "=", "2">>), err |-> ""]
           [] executable = "equalsearlier" ->
                  [out |-> GoodOutput(<<"1", " ", "y">>), err |-> ""]
           [] executable = "twolines" ->
                  [out |-> <<"F", ":", " ", "a", " ", "b", "\n",
                             "x", " ", "d", "=", "1">>, err |-> ""]
           [] OTHER ->
                  [out |-> <<"d", "=", "1">>, err |-> "Segmentation fault"]

\* Lines 54-71 of rspr: the distance and the clusters read from what the
\* executable printed.  stderr is printed and has no other effect.
Rspr(ran) ==
    LET out         == StripSpace(ran.out)
        output_list == SplitLines(out, <<>>)
        length      == Len(output_list)
        failed(exception) ==
            [raised |-> exception, distance |-> <<>>, clusters |-> <<>>]
    IN IF ~PyInRange(output_list, length - 3) THEN failed("IndexError")
       ELSE LET forest == PyItem(output_list, length - 3)
                tokens == SplitSpace(PyItem(output_list, -1), <<>>)
            IN IF tokens = <<>> THEN failed("IndexError")
               ELSE LET distance     == tokens[Len(tokens)]
                        equals_index == EqualsIndex(distance)
                    IN IF equals_index = -1 THEN failed("ValueError")
                       ELSE [raised   |-> "none",
                             distance |-> SubSeq(distance, equals_index + 2,
                                                 Len(distance)),
                             clusters |-> SubSeq(SplitSpace(forest, <<>>), 3,
                                                 Len(SplitSpace(forest, <<>>)))]

\* ----------------------------------------------------------- drspr.py: Tree
\* (((1,2),3),4)
TreeOne ==
    Parsed(<< <<2, 3>>, <<4, 5>>, <<>>, <<6, 7>>, <<>>, <<>>, <<>> >>,
           << NoLabel, NoLabel, <<"4">>, NoLabel, <<"3">>, <<"1">>, <<"2">> >>)

\* (((1,4),2),3)
TreeTwo ==
    Parsed(<< <<2, 3>>, <<4, 5>>, <<>>, <<6, 7>>, <<>>, <<>>, <<>> >>,
           << NoLabel, NoLabel, <<"3">>, NoLabel, <<"2">>, <<"1">>, <<"4">> >>)

\* (((1,2),3),5)
TreeWithFive ==
    Parsed(<< <<2, 3>>, <<4, 5>>, <<>>, <<6, 7>>, <<>>, <<>>, <<>> >>,
           << NoLabel, NoLabel, <<"5">>, NoLabel, <<"3">>, <<"1">>, <<"2">> >>)

\* (((1,4),2),)
TreeUnlabelledLeaf ==
    Parsed(<< <<2, 3>>, <<4, 5>>, <<>>, <<6, 7>>, <<>>, <<>>, <<>> >>,
           << NoLabel, NoLabel, NoLabel, NoLabel, <<"2">>, <<"1">>, <<"4">> >>)

\* The tree strings calculate_drspr is called with; the last one is a
\* string the parser rejects.
TreeStrings ==
    << TreeOne, TreeTwo, TreeWithFive, TreeUnlabelledLeaf, Unparseable >>

\* Tree.labelled_leaves: the set of the labels of the labelled leaves.
TreeLabelledLeaves(tree) ==
    {tree.label[leaf] : leaf \in {u \in LeavesOf(tree) : tree.label[u] # NoLabel}}

\* Tree.has_unlabelled_leaf()
HasUnlabelledLeaf(tree) == \E leaf \in LeavesOf(tree) : tree.label[leaf] = NoLabel

\* ------------------------------------------------ drspr.py: the comparison
\* The strings that mark a cell: the sentinel of an error and the
\* placeholder of a cell never written.
SentinelX == <<"X">>
Placeholder == <<"-">>

\* The error texts; a text is a sequence of pieces of text.
MalformedCellMessage == <<"Error occured. Check tree newick string.">>
MalformedPairMessage == <<"Error occured. Check tree newick strings.">>
UnlabelledMessage ==
    <<"Error occured. Tree(s) contain unlabelled leaves. Make sure all leaves are labelled.">>
MissingTaxaPrefix ==
    <<"Error occured. Trees don't have same taxa set. Missing taxa: ">>

\* sep.join(items)
RECURSIVE Join(_, _)
Join(sep, items) ==
    IF items = <<>> THEN <<>>
    ELSE IF Tail(items) = <<>> THEN Head(items)
    ELSE Head(items) \o sep \o Join(sep, Tail(items))

\* A set of labels in ascending order.
RECURSIVE SortedLabels(_)
SortedLabels(S) ==
    IF S = {} THEN <<>>
    ELSE LET least == CHOOSE x \in S : \A y \in S \ {x} : StrLess(x, y)
         IN <<least>> \o SortedLabels(S \ {least})

\* for leaf in a_set_of_labels: the labels in the order the seed gives.
LabelOrder(S, seed) ==
    IF seed = "ascending" THEN SortedLabels(S) ELSE Reverse(SortedLabels(S))

\* The comparison with the leaves of the first tree only as missing.
MissingLeavesOneSided(t1_leaves, t2_leaves) == t1_leaves \ t2_leaves

\* Lines 133 and 193: the leaves that one tree has and the other has not.
MissingLeaves(t1_leaves, t2_leaves) ==
    (t1_leaves \ t2_leaves) \cup (t2_leaves \ t1_leaves)

\* The comparison without the test for unlabelled leaves.
UnlabelledIgnored(t1, t2) == FALSE

\* Lines 123 and 184: one of the two trees has an unlabelled leaf.
EitherUnlabelled(t1, t2) == HasUnlabelledLeaf(t1) \/ HasUnlabelledLeaf(t2)

\* Lines 120-135 of rspr_pairwise and 179-194 of calculate_drspr: the
\* distance and the clusters of two parsed trees.  called is the set of
\* the pairs of strings rspr() was called with.
Compared(t1, t2, executable, seed) ==
    LET t1_leaves == TreeLabelledLeaves(t1)
        t2_leaves == TreeLabelledLeaves(t2)
    IN IF EitherUnlabelled(t1, t2)
       THEN [raised   |-> "none",
             distance |-> SentinelX,
             clusters |-> <<UnlabelledMessage>>,
             called   |-> {}]
       ELSE IF t1_leaves = t2_leaves
       THEN LET got == Rspr(ToolRun(executable, ENewick(t1), ENewick(t2)))
            IN [raised   |-> got.raised,
                distance |-> got.distance,
                clusters |-> got.clusters,
                called   |-> {<<ENewick(t1), ENewick(t2)>>}]
       ELSE LET missing_leaves == MissingLeaves(t1_leaves, t2_leaves)
            IN [raised   |-> "none",
                distance |-> SentinelX,
                clusters |-> << MissingTaxaPrefix
                                \o Join(<<",", " ">>,
                                        LabelOrder(missing_leaves, seed)) >>,
                called   |-> {}]

\* The body of the inner loop leaving the loops at a malformed tree.
PairCellAbortOnMalformed(tree_i, tree_j, executable, seed) ==
    IF ~TreeStrings[tree_i].parseable \/ ~TreeStrings[tree_j].parseable
    THEN [raised   |-> "MalformedNewickException",
          distance |-> SentinelX,
          clusters |-> <<MalformedCellMessage>>,
          called   |-> {},
          parsed   |-> 1]
    ELSE Compared(TreeStrings[tree_i].net, TreeStrings[tree_j].net,
                  executable, seed) @@ [parsed |-> 2]

\* Lines 112-139 of rspr_pairwise, the body of the inner loop: what is
\* written to cell [i][j] for trees[i] and trees[j].  parsed counts the
\* Tree(...) calls made.
PairCell(tree_i, tree_j, executable, seed) ==
    IF ~TreeStrings[tree_i].parseable
    THEN [raised   |-> "none",
          distance |-> SentinelX,
          clusters |-> <<MalformedCellMessage>>,
          called   |-> {},
          parsed   |-> 1]
    ELSE IF ~TreeStrings[tree_j].parseable
    THEN [raised   |-> "none",
          distance |-> SentinelX,
          clusters |-> <<MalformedCellMessage>>,
          called   |-> {},
          parsed   |-> 2]
    ELSE Compared(TreeStrings[tree_i].net, TreeStrings[tree_j].net,
                  executable, seed) @@ [parsed |-> 2]

\* Lines 163-203 of calculate_drspr, the path of exactly two trees: what
\* is returned as (distances, clusters).  After a tree that does not
\* parse, the attribute access at line 179 or 180 fails and the values
\* set at lines 174-175 are returned.
TwoTrees(tree_1, tree_2, executable, seed) ==
    IF ~TreeStrings[tree_1].parseable \/ ~TreeStrings[tree_2].parseable
    THEN [raised    |-> "none",
          distances |-> <<SentinelX>>,
          clusters  |-> <<MalformedPairMessage>>,
          called    |-> {}]
    ELSE LET pair == Compared(TreeStrings[tree_1].net,
                              TreeStrings[tree_2].net, executable, seed)
         IN IF pair.called = {}
            THEN [raised    |-> "none",
                  distances |-> <<pair.distance>>,
                  clusters  |-> pair.clusters,
                  called    |-> {}]
            ELSE [raised    |-> pair.raised,
                  distances |-> pair.distance,
                  clusters  |-> pair.clusters,
                  called    |-> pair.called]

\* ------------------------------------------------- drspr.py: the actions
\* The variables of the Network, which a distance calculation leaves alone.
network_vars == << phase, error, newick, original_network, current_network,
                   current_reticulations, current_selected_leaves,
                   trees_dict, all_trees, generated, typed, returned >>

\* The lists of tree strings calculate_drspr is called with, each string
\* given by its place in TreeStrings.
TreeLists == UNION {[1..n -> 1..Len(TreeStrings)] : n \in 0..MaxTrees}

\* The text of a tree string with the semicolon the callers add; the
\* string that does not parse is ((1,2; .
TreeText(tree) ==
    IF TreeStrings[tree].parseable THEN ENewick(TreeStrings[tree].net)
    ELSE <<"(", "(", "1", ",", "2", ";">>

\* f"t{i+1}": the id of the tree at place number of the input.
TreeId(number) == <<"t">> \o DecStr(number)

\* Lines 96-100 and 166-173: the text that stands in trees_array for a
\* tree that is not parsed.
ErrorText(number, tree) ==
    TreeId(number) \o <<":", "\n">> \o TreeText(tree)
    \o <<"\n",
         "Error with format. Check that tree has correct number of opening and closing brackets and terminates with semicolon.",
         "\n">>

\* Tree(trees[i] + ";", f"t{i+1}")
TreeObject(number, tree) ==
    [isTree |-> TRUE, id |-> TreeId(number), net |-> TreeStrings[tree].net]

\* Lines 97-100: trees_array before the loops, the error text of every tree.
ErrorTexts(trees_arg) ==
    [k \in 1..Len(trees_arg) |->
        [isTree |-> FALSE, text |-> ErrorText(k, trees_arg[k])]]

\* Lines 164-173: trees_array on the path of two trees.
TwoTreesArray(trees_arg) ==
    [k \in 1..Len(trees_arg) |->
        IF TreeStrings[trees_arg[k]].parseable
        THEN TreeObject(k, trees_arg[k])
        ELSE [isTree |-> FALSE, text |-> ErrorText(k, trees_arg[k])]]

\* The loop body without the assignment to trees_array.
TreeStoredNever(tree_i, tree_j) == FALSE

\* Lines 115-117: both Tree(...) calls succeed, so that line 117 stores t1.
TreeStored(tree_i, tree_j) ==
    TreeStrings[tree_i].parseable /\ TreeStrings[tree_j].parseable

\* Lines 102-103: a length x length array of placeholders.
PlaceholderArray(length) == [row \in 1..length |-> [column \in 1..length |-> Placeholder]]

\* calculate_drspr accepting any number of trees.
TooFewNever(length) == FALSE

\* Line 160: fewer than two trees.
TooFew(length) == length < 2

\* The inner loop starting at the first column in every row.
FirstColumnZero(i) == 0

\* Line 111, range(i, len(trees)): the first j of row i.
FirstColumn(i) == i

\* drspr.calculate_drspr(trees), up to the first comparison of
\* rspr_pairwise when there are more than two trees.
CalculateDrspr(trees_arg, executable, seed) ==
    /\ drspr_pc = "idle"
    /\ input_trees' = trees_arg
    /\ tool' = executable
    /\ LET length == Len(trees_arg)
       IN IF TooFew(length)
          THEN /\ drspr_pc' = "raised"
               /\ drspr_error' = "MalformedNewickException"
               /\ UNCHANGED << pair_i, pair_j, distance_array, clusters_array,
                               distances, clusters, rspr_calls, tree_calls,
                               trees_array >>
          ELSE IF length = 2
          THEN \E result \in {TwoTrees(trees_arg[1], trees_arg[2],
                                         executable, seed)} :
                  /\ tree_calls' = 2
                  /\ trees_array' = TwoTreesArray(trees_arg)
                  /\ rspr_calls' = result.called
                  /\ IF result.raised # "none"
                     THEN /\ drspr_pc' = "raised"
                          /\ drspr_error' = result.raised
                          /\ UNCHANGED << distances, clusters >>
                     ELSE /\ drspr_pc' = "returned"
                          /\ drspr_error' = "none"
                          /\ distances' = result.distances
                          /\ clusters' = result.clusters
                  /\ UNCHANGED << pair_i, pair_j, distance_array, clusters_array >>
          ELSE /\ trees_array' = ErrorTexts(trees_arg)
               /\ distance_array' = PlaceholderArray(length)
               /\ clusters_array' = PlaceholderArray(length)
               /\ pair_i' = 0
               /\ pair_j' = FirstColumn(0)
               /\ IF length = 0
                  THEN /\ drspr_pc' = "returned"
                       /\ distances' = <<>>
                       /\ clusters' = <<>>
                  ELSE /\ drspr_pc' = "pairwise"
                       /\ UNCHANGED << distances, clusters >>
               /\ UNCHANGED << drspr_error, rspr_calls, tree_calls >>
    /\ UNCHANGED shown
    /\ UNCHANGED << network_vars, graph_vars >>

\* rspr_pairwise: one pass through the body of the inner loop, for the
\* cell [pair_i][pair_j], and the return after the last cell.
PairwiseStep(seed) ==
    /\ drspr_pc = "pairwise"
    /\ \E cell \in {PairCell(input_trees[pair_i + 1], input_trees[pair_j + 1],
                              tool, seed)} :
       LET length == Len(input_trees)
           distance_written ==
               [distance_array EXCEPT ![pair_i + 1][pair_j + 1] = cell.distance]
           clusters_written ==
               [clusters_array EXCEPT ![pair_i + 1][pair_j + 1] = cell.clusters]
       IN /\ rspr_calls' = rspr_calls \cup cell.called
          /\ tree_calls' = tree_calls + cell.parsed
          /\ trees_array' =
                 IF TreeStored(input_trees[pair_i + 1], input_trees[pair_j + 1])
                 THEN [trees_array EXCEPT ![pair_i + 1] =
                          TreeObject(pair_i + 1, input_trees[pair_i + 1])]
                 ELSE trees_array
          /\ IF cell.raised # "none"
             THEN /\ drspr_pc' = "raised"
                  /\ drspr_error' = cell.raised
                  /\ UNCHANGED << pair_i, pair_j, distance_array,
                                  clusters_array, distances, clusters >>
             ELSE /\ distance_array' = distance_written
                  /\ clusters_array' = clusters_written
                  /\ UNCHANGED drspr_error
                  /\ IF pair_j + 1 < length
                     THEN /\ pair_j' = pair_j + 1
                          /\ UNCHANGED << pair_i, drspr_pc, distances, clusters >>
                     ELSE IF pair_i + 1 < length
                     THEN /\ pair_i' = pair_i + 1
                          /\ pair_j' = FirstColumn(pair_i + 1)
                          /\ UNCHANGED << drspr_pc, distances, clusters >>
                     ELSE /\ drspr_pc' = "returned"
                          /\ distances' = distance_written
                          /\ clusters' = clusters_written
                          /\ UNCHANGED << pair_i, pair_j >>
    /\ UNCHANGED << input_trees, tool, shown >>
    /\ UNCHANGED << network_vars, graph_vars >>

\* Program.print_drspr (phyloprogram.py, lines 686-705): one distance is
\* printed when len(distances) is 1, a matrix otherwise.
PrintDrspr ==
    /\ drspr_pc = "returned"
    /\ drspr_pc' = "printed"
    /\ shown' = IF Len(distances) = 1 THEN "distance" ELSE "matrix"
    /\ UNCHANGED << input_trees, tool, pair_i, pair_j, trees_array,
                    distance_array, clusters_array, distances, clusters,
                    drspr_error, rspr_calls, tree_calls >>
    /\ UNCHANGED << network_vars, graph_vars >>

NextDrspr ==
    \/ /\ drspr_pc = "idle"
       /\ \E trees_arg \in TreeLists, executable \in Tools, seed \in HashSeeds :
              CalculateDrspr(trees_arg, executable, seed)
    \/ \E seed \in HashSeeds : PairwiseStep(seed)
    \/ PrintDrspr

\* One distance calculation: calculate_drspr is called once and its
\* result printed.
SpecDrspr == Init /\ [][NextDrspr]_vars

\* ------------------------------------------ rspr_graph.py: the RsprGraph
\* A dict is the sequence of its items, in the order the keys were first
\* set.
DictKeys(dict) == {dict[k].key : k \in 1..Len(dict)}

\* dict[key]
DictGet(dict, key) ==
    dict[CHOOSE k \in 1..Len(dict) : dict[k].key = key].value

\* dict[key] = value: a new key goes last, a key already there keeps its
\* place and takes the new value.
DictSet(dict, key, value) ==
    IF key \in DictKeys(dict)
    THEN [k \in 1..Len(dict) |->
             IF dict[k].key = key THEN [key |-> key, value |-> value]
             ELSE dict[k]]
    ELSE Append(dict, [key |-> key, value |-> value])

\* nx.Graph.add_node: a node already there is left alone.
GraphAddNode(g, node) ==
    IF node \in Range(g.nodes) THEN g
    ELSE [nodes |-> Append(g.nodes, node), adj |-> DictSet(g.adj, node, <<>>)]

\* One direction of nx.Graph.add_edge: v among the neighbours of u.
GraphAddNeighbour(g, u, v) ==
    IF v \in Range(DictGet(g.adj, u)) THEN g
    ELSE [g EXCEPT !.adj = DictSet(g.adj, u, Append(DictGet(g.adj, u), v))]

\* nx.Graph.add_edge: both nodes are added when missing, and each becomes
\* a neighbour of the other.
GraphAddEdge(g, u, v) ==
    GraphAddNeighbour(
        GraphAddNeighbour(GraphAddNode(GraphAddNode(g, u), v), u, v), v, u)

\* graph.neighbors(node), in iteration order.
Neighbors(g, node) == DictGet(g.adj, node)

\* f"t{i}"
Label(i) == <<"t">> \o DecStr(i)

\* The tree strings of __main__ and one with a missing bracket, each
\* without its semicolon.
GraphTreeStrings ==
    << <<"(", "(", "1", ",", "2", ")", ",", "3", ")">>,
       <<"(", "(", "1", ",", "3", ")", ",", "2", ")">>,
       <<"(", "1", ",", "(", "2", ",", "3", ")", ")">>,
       <<"(", "(", "1", ",", "2", ")", ",", "3">> >>

\* PhylogeneticNetwork(text) raises MalformedNewickException unless the
\* text is a well-formed string.
ParsesAsNetwork(text) ==
    \E n \in 1..3 : text = GraphTreeStrings[n] \o <<";">>

\* The characters str.translate removes at line 75.
IsRemoved(c) == c \in {" ", "\n", "\t", "\r"}

\* str.split(";"): the segments between the semicolons.
RECURSIVE SplitSemicolon(_, _)
SplitSemicolon(s, segment) ==
    IF s = <<>> THEN <<segment>>
    ELSE IF Head(s) = ";" THEN <<segment>> \o SplitSemicolon(Tail(s), <<>>)
    ELSE SplitSemicolon(Tail(s), Append(segment, Head(s)))

\* Lines 75-79: trees_array.
TreesArray(text) ==
    LET keep(c) == ~IsRemoved(c)
        stripped == SelectSeq(text, keep)
        segments == SplitSemicolon(stripped, <<>>)
    IN IF segments[Len(segments)] = <<>>
       THEN SubSeq(segments, 1, Len(segments) - 1)
       ELSE segments

\* Lines 86-93: the loop of check_validity from tree i on.
RECURSIVE CheckFrom(_, _, _, _)
CheckFrom(i, segments, label_dict, valid) ==
    IF i > Len(segments)
    THEN [tree_label_dict |-> label_dict, valid_trees |-> valid]
    ELSE LET tree == segments[i] \o <<";">>
             labelled == DictSet(label_dict, tree, Label(i))
         IN IF ParsesAsNetwork(tree)
            THEN CheckFrom(i + 1, segments, labelled, Append(valid, tree))
            ELSE CheckFrom(i + 1, segments, labelled, valid)

\* check_validity
CheckValidity(text) == CheckFrom(1, TreesArray(text), <<>>, <<>>)

\* The executables a run may find at resource_path("spr_dense_graph"),
\* named by what they print: every pair of neighbouring trees once, every
\* pair in both directions, or nothing.
NeighbourTools == {"once", "both", "silent"}

\* The lines "i,j" an executable prints for the trees it reads, from the
\* k-th ordered pair on. Two trees are neighbours when their strings
\* differ: the trees of GraphTreeStrings are one rSPR move apart.
RECURSIVE NeighbourLines(_, _, _)
NeighbourLines(executable, trees, k) ==
    IF k >= Len(trees) * Len(trees) THEN <<>>
    ELSE LET i == k \div Len(trees)
             j == k % Len(trees)
             reported ==
                 /\ trees[i + 1] # trees[j + 1]
                 /\ \/ executable = "both" /\ i # j
                    \/ executable = "once" /\ i < j
         IN (IF reported THEN <<DecStr(i) \o <<",">> \o DecStr(j) \o <<"\n">>>>
             ELSE <<>>)
            \o NeighbourLines(executable, trees, k + 1)

\* communicate(input=trees_string): what the executable prints.
NeighbourRun(executable, input) ==
    Join(<<>>, NeighbourLines(executable, SplitLines(input, <<>>), 0))

\* int(s) of a string of digits.
RECURSIVE PyInt(_)
PyInt(s) ==
    IF s = <<>> THEN 0
    ELSE PyInt(SubSeq(s, 1, Len(s) - 1)) * 10
         + (CHOOSE d \in 0..9 : Digit(d) = s[Len(s)])

\* Lines 149-178: the lines the executable printed for the valid trees.
OutputLines(valid, executable) ==
    LET out == StripSpace(NeighbourRun(executable, Join(<<"\n">>, valid)))
    IN SplitSpace(out, <<>>)

\* Lines 185-199: one line of the output is entered in adjacency_dict.
AdjacencyLine(line, valid, label_dict, adjacency) ==
    LET array == SplitComma(line, <<>>)
        node_index == PyInt(array[1])
        neighbour_index == PyInt(array[2])
        node_tree == valid[node_index + 1]
        neighbour_tree == valid[neighbour_index + 1]
        node == DictGet(label_dict, node_tree)
        neighbour == DictGet(label_dict, neighbour_tree)
    IN IF node \in DictKeys(adjacency)
       THEN DictSet(adjacency, node,
                    Append(DictGet(adjacency, node), neighbour))
       ELSE DictSet(adjacency, node, <<neighbour>>)

\* Lines 211-213: add_node for the valid trees from the i-th on.
RECURSIVE AddNodesFrom(_, _, _, _)
AddNodesFrom(i, valid, label_dict, g) ==
    IF i > Len(valid) THEN g
    ELSE AddNodesFrom(i + 1, valid, label_dict,
                      GraphAddNode(g, DictGet(label_dict, valid[i])))

\* The lists of trees an RsprGraph is made from, each tree given by its
\* place in GraphTreeStrings.
GraphTreeLists ==
    UNION {[1..n -> 1..Len(GraphTreeStrings)] : n \in 0..MaxGraphTrees}

\* The text of a list of trees: every tree ends with a semicolon and the
\* trees are on lines of their own, as in __main__, or the trees are only
\* separated by semicolons.
TreesText(list, style) ==
    IF style = "lines"
    THEN Join(<<"\n">>, [k \in 1..Len(list) |->
                            GraphTreeStrings[list[k]] \o <<";">>])
    ELSE Join(<<";">>, [k \in 1..Len(list) |-> GraphTreeStrings[list[k]]])

TextStyles == {"lines", "separated"}

\* The variables no RsprGraph touches.
other_vars == << network_vars, drspr_vars >>

\* The variables of hamiltonian_cycle, which __init__ leaves alone.
search_vars == << root, num_nodes, stack, pending, hamilton_path >>

\* RsprGraph.__init__ (lines 51-63) up to the loop of spr_dense_graph:
\* check_validity, and the executable is run on the valid trees.
RsprGraphInit(text, executable) ==
    /\ graph_pc = "idle"
    /\ \E checked \in {CheckValidity(text)} :
           /\ tree_label_dict' = checked.tree_label_dict
           /\ valid_trees' = checked.valid_trees
           /\ output_lines' = OutputLines(checked.valid_trees, executable)
    /\ trees_string' = text
    /\ neighbour_tool' = executable
    /\ adjacency_dict' = <<>>
    /\ loop_i' = 1
    /\ graph_pc' = "adjacency"
    /\ UNCHANGED << graph, loop_k >>
    /\ UNCHANGED search_vars
    /\ UNCHANGED other_vars

\* spr_dense_graph, lines 183-199: the next line of the output.
AdjacencyStep ==
    /\ graph_pc = "adjacency"
    /\ loop_i <= Len(output_lines)
    /\ adjacency_dict' = AdjacencyLine(output_lines[loop_i], valid_trees,
                                       tree_label_dict, adjacency_dict)
    /\ loop_i' = loop_i + 1
    /\ UNCHANGED << graph_pc, trees_string, neighbour_tool, tree_label_dict,
                    valid_trees, output_lines, graph, loop_k >>
    /\ UNCHANGED search_vars
    /\ UNCHANGED other_vars

\* create_graph, lines 209-213, after the last line of the output: a new
\* graph with the nodes of the valid trees.
CreateGraphNodes ==
    /\ graph_pc = "adjacency"
    /\ loop_i > Len(output_lines)
    /\ graph' = AddNodesFrom(1, valid_trees, tree_label_dict, EmptyGraph)
    /\ graph_pc' = "edges"
    /\ loop_i' = 1
    /\ loop_k' = 1
    /\ UNCHANGED << trees_string, neighbour_tool, tree_label_dict,
                    valid_trees, output_lines, adjacency_dict >>
    /\ UNCHANGED search_vars
    /\ UNCHANGED other_vars

\* create_graph, lines 215-217: the next neighbour of the next item of
\* adjacency_dict; __init__ returns after the last item.
CreateGraphEdge ==
    /\ graph_pc = "edges"
    /\ IF loop_i > Len(adjacency_dict)
       THEN /\ graph_pc' = "built"
            /\ UNCHANGED << graph, loop_i, loop_k >>
       ELSE IF loop_k > Len(adjacency_dict[loop_i].value)
       THEN /\ loop_i' = loop_i + 1
            /\ loop_k' = 1
            /\ UNCHANGED << graph, graph_pc >>
       ELSE /\ graph' = GraphAddEdge(graph, adjacency_dict[loop_i].key,
                                     adjacency_dict[loop_i].value[loop_k])
            /\ loop_k' = loop_k + 1
            /\ UNCHANGED << graph_pc, loop_i >>
    /\ UNCHANGED << trees_string, neighbour_tool, tree_label_dict,
                    valid_trees, output_lines, adjacency_dict >>
    /\ UNCHANGED search_vars
    /\ UNCHANGED other_vars

\* A call hamiltonian_cycle(graph, current_vertex, path, root, num_nodes)
\* that has not run its first line.
Call(current_vertex, path) ==
    [current_vertex |-> current_vertex, path |-> path, k |-> 0]

\* RsprGraph.text (lines 121-124): the search starts at the first node of
\* the graph; list(...)[0] of a graph without nodes raises IndexError.
Text ==
    /\ graph_pc = "built"
    /\ IF graph.nodes = <<>>
       THEN /\ graph_pc' = "raised"
            /\ UNCHANGED << root, num_nodes, stack >>
       ELSE /\ graph_pc' = "searching"
            /\ root' = graph.nodes[1]
            /\ num_nodes' = Len(graph.nodes)
            /\ stack' = <<Call(graph.nodes[1], <<>>)>>
    /\ UNCHANGED << trees_string, neighbour_tool, tree_label_dict,
                    valid_trees, output_lines, loop_i, loop_k,
                    adjacency_dict, graph, pending, hamilton_path >>
    /\ UNCHANGED other_vars

\* hamiltonian_cycle(g, first, (), first, g.number_of_nodes()) on a graph
\* of its own.
HamiltonianCycle(g, first) ==
    /\ graph_pc = "idle"
    /\ graph_pc' = "searching"
    /\ graph' = g
    /\ root' = first
    /\ num_nodes' = Len(g.nodes)
    /\ stack' = <<Call(first, <<>>)>>
    /\ UNCHANGED << trees_string, neighbour_tool, tree_label_dict,
                    valid_trees, output_lines, loop_i, loop_k,
                    adjacency_dict, pending, hamilton_path >>
    /\ UNCHANGED other_vars

\* Lines 262-264: the path has all the nodes and the last one is adjacent
\* to the root.
Closes(g, current_vertex, path, first, n) ==
    /\ Len(path) = n
    /\ first \in Range(Neighbors(g, current_vertex))

\* The loop without the test of line 270.
UnvisitedAlways(neighbour, path) == TRUE

\* Line 270: neighbour not in path.
Unvisited(neighbour, path) == neighbour \notin Range(path)

\* The loop giving up after the first call that finds nothing.
TruthyAlways(result) == TRUE

\* Line 272: if result.
Truthy(result) == ~result.isNone /\ result.path # <<>>

\* The stack with its innermost call replaced.
ReplaceTop(calls, call) == [calls EXCEPT ![Len(calls)] = call]

\* The stack without its innermost call.
Pop(calls) == SubSeq(calls, 1, Len(calls) - 1)

\* The variables the steps of hamiltonian_cycle leave alone.
fixed_graph_vars == << trees_string, neighbour_tool, tree_label_dict,
                       valid_trees, output_lines, loop_i, loop_k,
                       adjacency_dict, graph, root, num_nodes >>

\* Lines 258-265 of the innermost call: the vertex joins the path, and a
\* full path whose last vertex is adjacent to the root is returned closed.
HamEnter ==
    /\ graph_pc = "searching"
    /\ stack # <<>>
    /\ pending = Nothing
    /\ stack[Len(stack)].k = 0
    /\ LET call == stack[Len(stack)]
           path == Append(call.path, call.current_vertex)
       IN IF Closes(graph, call.current_vertex, path, root, num_nodes)
          THEN /\ pending' = [isNone |-> FALSE, path |-> Append(path, root)]
               /\ stack' = Pop(stack)
          ELSE /\ stack' = ReplaceTop(stack, [call EXCEPT !.path = path,
                                                          !.k = 1])
               /\ UNCHANGED pending
    /\ UNCHANGED << graph_pc, hamilton_path >>
    /\ UNCHANGED fixed_graph_vars
    /\ UNCHANGED other_vars

\* Lines 269-271 and 275 of the innermost call: the next neighbour is
\* skipped when it is on the path and searched from otherwise; after the
\* last neighbour the call returns None.
HamLoop ==
    /\ graph_pc = "searching"
    /\ stack # <<>>
    /\ pending = Nothing
    /\ stack[Len(stack)].k > 0
    /\ LET call == stack[Len(stack)]
           neighbours == Neighbors(graph, call.current_vertex)
       IN IF call.k > Len(neighbours)
          THEN /\ pending' = None
               /\ stack' = Pop(stack)
          ELSE IF Unvisited(neighbours[call.k], call.path)
          THEN /\ stack' = Append(stack, Call(neighbours[call.k], call.path))
               /\ UNCHANGED pending
          ELSE /\ stack' = ReplaceTop(stack, [call EXCEPT !.k = call.k + 1])
               /\ UNCHANGED pending
    /\ UNCHANGED << graph_pc, hamilton_path >>
    /\ UNCHANGED fixed_graph_vars
    /\ UNCHANGED other_vars

\* Lines 271-273 of the calling call: a result that is true is returned
\* at once, otherwise the loop goes on with the next neighbour.
HamResume ==
    /\ graph_pc = "searching"
    /\ stack # <<>>
    /\ pending # Nothing
    /\ LET call == stack[Len(stack)]
       IN IF Truthy(pending)
          THEN /\ stack' = Pop(stack)
               /\ UNCHANGED pending
          ELSE /\ stack' = ReplaceTop(stack, [call EXCEPT !.k = call.k + 1])
               /\ pending' = Nothing
    /\ UNCHANGED << graph_pc, hamilton_path >>
    /\ UNCHANGED fixed_graph_vars
    /\ UNCHANGED other_vars

\* The outermost call returns (to line 124 of RsprGraph.text).
HamReturn ==
    /\ graph_pc = "searching"
    /\ stack = <<>>
    /\ pending # Nothing
    /\ graph_pc' = "done"
    /\ hamilton_path' = pending
    /\ pending' = Nothing
    /\ UNCHANGED stack
    /\ UNCHANGED fixed_graph_vars
    /\ UNCHANGED other_vars

\* One RsprGraph is made and its text is asked for.
NextGraph ==
    \/ /\ graph_pc = "idle"
       /\ \E list \in GraphTreeLists, style \in TextStyles,
             executable \in NeighbourTools :
              RsprGraphInit(TreesText(list, style), executable)
    \/ AdjacencyStep
    \/ CreateGraphNodes
    \/ CreateGraphEdge
    \/ Text
    \/ HamEnter
    \/ HamLoop
    \/ HamResume
    \/ HamReturn

SpecGraph == Init /\ [][NextGraph]_vars

\* The graph on the nodes t1..tn with the given edges, every node's
\* neighbours in the order the seed gives.
GraphOf(n, edges, seed) ==
    [nodes |-> [k \in 1..n |-> Label(k)],
     adj |-> [k \in 1..n |->
                [key |-> Label(k),
                 value |->
                     LET nbrs == IterationOrder(
                                     {m \in 1..n : \/ <<k, m>> \in edges
                                                   \/ <<m, k>> \in edges},
                                     seed)
                     IN [x \in 1..Len(nbrs) |-> Label(nbrs[x])]]]]

\* The pairs of nodes an edge may join.
NodePairs(n) == {pair \in (1..n) \X (1..n) : pair[1] < pair[2]}

\* The edges of the graph of __main__ (lines 291-313), its nodes a to f
\* numbered 1 to 6.
MainGraphEdges ==
    {<<1, 2>>, <<1, 3>>, <<1, 4>>, <<2, 3>>, <<2, 5>>,
     <<3, 4>>, <<3, 5>>, <<4, 5>>, <<4, 6>>, <<5, 6>>}

\* The graphs hamiltonian_cycle is called on: every graph of up to
\* MaxNodes nodes, and the graph of __main__.
Graphs ==
    UNION {{GraphOf(n, edges, seed) :
                edges \in SUBSET NodePairs(n), seed \in HashSeeds} :
           n \in 1..MaxNodes}
    \cup {GraphOf(6, MainGraphEdges, seed) : seed \in HashSeeds}

\* One call of hamiltonian_cycle on a graph, from any of its nodes.
NextHamilton ==
    \/ /\ graph_pc = "idle"
       /\ \E g \in Graphs : \E first \in Range(g.nodes) :
              HamiltonianCycle(g, first)
    \/ HamEnter
    \/ HamLoop
    \/ HamResume
    \/ HamReturn

SpecHamilton == Init /\ [][NextHamilton]_vars

\* The interpreter goes on running a call that has a next step.
SpecHamiltonFair == SpecHamilton /\ WF_vars(NextHamilton)

\* ------------------------------------------------------------ the claims
\* The edges of a network, as pairs <<parent, child>>.
EdgesOf(net) ==
    UNION {{<<p, c>> : c \in Range(net.succ[p])} : p \in NodesOf(net)}

RECURSIVE ProductOfInDegrees(_, _)
ProductOfInDegrees(net, nodes) ==
    IF nodes = <<>> THEN 1
    ELSE InDegree(net, Head(nodes)) * ProductOfInDegrees(net, Tail(nodes))

\* C1: once all_trees is computed, it holds as many trees as the product
\* of the in-degrees of the reticulations of the working network: 2^R when
\* each of the R reticulations has exactly two parents, one tree when R = 0.
C1_AllTreesCount ==
    (phase = "ready" /\ all_trees.computed) =>
        LET reticulations == ReticulationsOf(current_network)
            R == Len(reticulations)
        IN /\ Len(all_trees.value) =
                  ProductOfInDegrees(current_network, reticulations)
           /\ (\A i \in 1..R : InDegree(current_network, reticulations[i]) = 2)
                  => Len(all_trees.value) = Pow2(R)
           /\ R = 0 => Len(all_trees.value) = 1

\* The expansion has run on the network with three two-parent reticulations.
C1_Witness ==
    /\ phase = "ready" /\ all_trees.computed
    /\ Len(ReticulationsOf(current_network)) = 3
    /\ \A u \in NodesOf(current_network) : InDegree(current_network, u) <= 2
    /\ Len(all_trees.value) = 8

RECURSIVE SumOfCounts(_, _)
SumOfCounts(trees_data, keys) ==
    IF keys = {} THEN 0
    ELSE LET k == CHOOSE x \in keys : TRUE
         IN trees_data[k].count + SumOfCounts(trees_data, keys \ {k})

\* C2: for every selection processed, the occurrence counts of the tree
\* multiset sum to the number of unsuppressed trees, and there are at most
\* that many distinct keys.
C2_CountsSumToTotal ==
    \A selection \in DOMAIN trees_dict :
        LET trees_data == trees_dict[selection].trees_data
        IN /\ selection # <<>>
           /\ all_trees.computed
           /\ SumOfCounts(trees_data, DOMAIN trees_data) = Len(all_trees.value)
           /\ Cardinality(DOMAIN trees_data) <= Len(all_trees.value)

\* A single leaf was processed on a network with several unsuppressed
\* trees, which all reduce to the same tree.
C2_Witness ==
    \E selection \in DOMAIN trees_dict :
        /\ Len(selection) = 1
        /\ Len(all_trees.value) = 8
        /\ Cardinality(DOMAIN trees_dict[selection].trees_data) = 1

\* The sets of one incoming edge per reticulation of a network.
EdgeChoices(net, edges) ==
    LET reticulations == Range(ReticulationsOf(net))
    IN {{<<f[r], r>> : r \in reticulations} :
           f \in {g \in [reticulations -> NodesOf(net)] :
                     \A r \in reticulations : <<g[r], r>> \in edges}}

\* C3: every member of all_trees is the working network with exactly one
\* incoming edge of each reticulation removed and nothing else changed, and
\* every choice of one incoming edge per reticulation is the removed set of
\* exactly one member.
C3_OneEdgePerReticulation ==
    (phase = "ready" /\ all_trees.computed) =>
        LET edges   == EdgesOf(current_network)
            choices == EdgeChoices(current_network, edges)
            removed == [i \in 1..Len(all_trees.value) |->
                           edges \ EdgesOf(all_trees.value[i])]
        IN /\ \A i \in 1..Len(all_trees.value) :
                  LET tree == all_trees.value[i]
                  IN /\ NodesOf(tree) = NodesOf(current_network)
                     /\ tree.label = current_network.label
                     /\ \A u \in NodesOf(tree) :
                            tree.succ[u] =
                                SelectSeq(current_network.succ[u],
                                          LAMBDA c : <<u, c>> \notin removed[i])
                     /\ removed[i] \in choices
           /\ \A choice \in choices :
                  Cardinality({i \in 1..Len(all_trees.value) :
                                  removed[i] = choice}) = 1

\* The expansion has run on a network with a reticulation of three parents.
C3_Witness ==
    /\ phase = "ready" /\ all_trees.computed
    /\ \E u \in NodesOf(current_network) : InDegree(current_network, u) = 3
    /\ Len(all_trees.value) = 3

\* C4: no step removes or replaces an entry of trees_dict, and a process
\* call whose current selection is a key of trees_dict returns the stored
\* object without running generate.
C4_CacheKept ==
    [][phase = "ready" =>
          /\ \A selection \in DOMAIN trees_dict :
                 /\ selection \in DOMAIN trees_dict'
                 /\ trees_dict'[selection] = trees_dict[selection]
          /\ (returned' # 0 /\ current_selected_leaves \in DOMAIN trees_dict) =>
                 /\ returned' = trees_dict[current_selected_leaves].id
                 /\ generated' = generated
                 /\ trees_dict' = trees_dict]_vars

\* The first result was returned again after a second selection had been
\* processed.
C4_Witness ==
    /\ generated = 2
    /\ returned = 1
    /\ CacheHit(current_selected_leaves, trees_dict)
    /\ trees_dict[current_selected_leaves].id = 1

\* C5: in every state of a constructed Network the original network is
\* the network parsed from the input: no call changes its nodes, edges or
\* labels.
C5_OriginalUnchanged ==
    phase = "ready" => original_network = ParseNewick(newick)

\* Trees were generated on a network whose working copy differs from the
\* original (an elementary node suppressed, an internal label removed).
C5_Witness ==
    /\ phase = "ready"
    /\ generated = 2
    /\ NodesOf(current_network) # NodesOf(original_network)
    /\ current_network.label # [u \in NodesOf(current_network) |-> original_network.label[u]]
    /\ original_network = ParseNewick(newick)

\* The labels carried by the leaves of a network.
LeafLabels(net) == {net.label[u] : u \in LeavesOf(net)} \ {NoLabel}

IsSorted(list) ==
    \A i \in 1..Len(list) : \A j \in 1..Len(list) :
        i < j => ~StrLess(list[j], list[i])

\* C6: the current selection of a constructed Network is non-empty and
\* sorted, holds only labelled leaves, and holds no label twice.
C6_SelectionIsSortedSubset ==
    phase = "ready" =>
        /\ current_selected_leaves # <<>>
        /\ IsSorted(current_selected_leaves)
        /\ Range(current_selected_leaves) \subseteq LeafLabels(original_network)
        /\ \A i \in 1..Len(current_selected_leaves) :
               \A j \in 1..Len(current_selected_leaves) :
                   i # j => current_selected_leaves[i] # current_selected_leaves[j]

\* The items of a typed text, by position: an item starts after position b,
\* b being 0 or the position of a comma, and ends before the next comma or
\* the end of the text.
ItemStarts(text) == {0} \cup {i \in 1..Len(text) : text[i] = ","}

ItemEnd(text, b) ==
    CHOOSE e \in (b + 1)..(Len(text) + 1) :
        /\ e = Len(text) + 1 \/ text[e] = ","
        /\ \A k \in (b + 1)..(e - 1) : text[k] # ","

\* The item starting after b, without the blanks around it.
TrimmedItem(text, b) ==
    LET inside == {k \in (b + 1)..(ItemEnd(text, b) - 1) : text[k] # " "}
    IN IF inside = {} THEN <<>>
       ELSE SubSeq(text,
                   CHOOSE k \in inside : \A m \in inside : k <= m,
                   CHOOSE k \in inside : \A m \in inside : k >= m)

\* The starts of the items of the text that are labelled leaves.
KeptItems(text, net) ==
    {b \in ItemStarts(text) : TrimmedItem(text, b) \in LeafLabels(net)}

\* C7: set_current_selected_leaves on a typed text raises InvalidLeaves
\* exactly when no trimmed item is a labelled leaf, and otherwise stores the
\* kept items, each as often as it was typed, in sorted order.
C7_SelectFromString ==
    phase = "ready" =>
        LET result == SelectionResult([isStr |-> TRUE, text |-> typed],
                                      original_network, current_selected_leaves)
            kept   == KeptItems(typed, original_network)
        IN /\ result.raised = "InvalidLeaves" <=> kept = {}
           /\ error = "InvalidLeaves" => kept = {}
           /\ kept # {} =>
                 /\ result.raised = "none"
                 /\ IsSorted(result.selection)
                 /\ Len(result.selection) = Cardinality(kept)
                 /\ \A leaf \in LeafLabels(original_network) :
                        Cardinality({i \in 1..Len(result.selection) :
                                        result.selection[i] = leaf})
                        = Cardinality({b \in kept :
                                          TrimmedItem(typed, b) = leaf})

\* "a,1" was typed on a network with the leaves 1, A and a: both items
\* are kept and stored in sorted order.
C7_Witness ==
    /\ phase = "ready"
    /\ typed = <<"a", ",", "1">>
    /\ LeafLabels(original_network) = {<<"1">>, <<"A">>, <<"a">>}
    /\ error = "none"
    /\ current_selected_leaves = << <<"1">>, <<"a">> >>

\* The input constructed from is parseable and none of its leaves is
\* labelled.
ZeroLabelledLeaves ==
    /\ newick \in 1..Len(NetworkInputs)
    /\ NetworkInputs[newick].parseable
    /\ LeafLabels(NetworkInputs[newick].net) = {}

C10_OnlySelectedLeaves ==
    \A selection \in DOMAIN trees_dict :
        LET trees_data == trees_dict[selection].trees_data
        IN \A tree_newick \in DOMAIN trees_data :
               \A i \in 1..Len(trees_data[tree_newick].trees) :
                   LET tree == trees_data[tree_newick].trees[i]
                   IN /\ \A leaf \in LeavesOf(tree) :
                             tree.label[leaf] \in Range(selection)
                      /\ \A label \in Range(selection) :
                             \E leaf \in LeavesOf(tree) : tree.label[leaf] = label

\* The text that selects the leaves of a selection: its labels joined by
\* commas.
RECURSIVE JoinComma(_)
JoinComma(selection) ==
    IF selection = <<>> THEN <<>>
    ELSE IF Tail(selection) = <<>> THEN Head(selection)
    ELSE Head(selection) \o <<",">> \o JoinComma(Tail(selection))

\* A run of the whole pipeline on a new Network: construct, select the
\* leaves named by the text, process.
PipelineRun(network_newick, text, seed) ==
    LET made   == Constructed(network_newick)
        chosen == SelectionResult([isStr |-> TRUE, text |-> text],
                                  made.original, made.selection)
    IN Generate(1, AllTrees(made.current, made.reticulations),
                NumReticulations(made.original), chosen.selection, seed)

\* The keys of a tree multiset with their counts.
KeysAndCounts(trees_data) ==
    [tree_newick \in DOMAIN trees_data |-> trees_data[tree_newick].count]

\* C9: the result process() has just returned has the keys and the counts
\* of a second run of the pipeline on the same network and the same leaves,
\* in whichever order that run iterates over its sets of leaves.
C9_Deterministic ==
    (phase = "ready" /\ returned # 0) =>
        \A selection \in DOMAIN trees_dict :
            trees_dict[selection].id = returned =>
                \A seed \in HashSeeds :
                    KeysAndCounts(PipelineRun(newick, JoinComma(selection),
                                              seed).trees_data)
                    = KeysAndCounts(trees_dict[selection].trees_data)

\* A result with two distinct trees, one of them counted more than once,
\* was returned from the cache after another selection had been processed.
C9_Witness ==
    /\ phase = "ready" /\ returned = 1 /\ generated = 2
    /\ \E selection \in DOMAIN trees_dict :
           /\ trees_dict[selection].id = 1
           /\ Cardinality(DOMAIN trees_dict[selection].trees_data) >= 2
           /\ \E k \in DOMAIN trees_dict[selection].trees_data :
                  trees_dict[selection].trees_data[k].count >= 2

\* C11: every entry of every stored tree multiset holds its count and
\* exactly one network, the representative: a later tree with the same
\* canonical string adds to the count and stores nothing.
C11_CountAndOneRepresentative ==
    \A selection \in DOMAIN trees_dict :
        \A tree_newick \in DOMAIN trees_dict[selection].trees_data :
            LET entry == trees_dict[selection].trees_data[tree_newick]
            IN /\ entry.count >= 1
               /\ Len(entry.trees) = 1
               /\ ENewick(entry.trees[1]) = tree_newick

\* The calculation on more than two trees has returned its two arrays.
PairwiseReturned ==
    drspr_pc \in {"returned", "printed"} /\ Len(input_trees) > 2

\* C12: in the distance array returned for more than two trees, every
\* cell [i][i] of the diagonal holds the placeholder "-".
C12_DiagonalIsPlaceholder ==
    PairwiseReturned =>
        \A row \in 1..Len(distances) : distances[row][row] = Placeholder

\* C13: in the distance and cluster arrays of more than two trees, every
\* cell [i][j] with i > j holds the placeholder "-", while the loops run
\* and in what is returned: only cells with i <= j are written.
C13_LowerTriangleIsPlaceholder ==
    /\ \A row \in 1..Len(distance_array) :
           \A column \in 1..(row - 1) :
               /\ distance_array[row][column] = Placeholder
               /\ clusters_array[row][column] = Placeholder
    /\ PairwiseReturned =>
           \A row \in 1..Len(distances) :
               \A column \in 1..(row - 1) :
                   /\ distances[row][column] = Placeholder
                   /\ clusters[row][column] = Placeholder

\* Three trees were compared and every cell above the diagonal was written.
C13_Witness ==
    /\ PairwiseReturned
    /\ Len(distances) = 3
    /\ \A row \in 1..3 : \A column \in (row + 1)..3 :
           distances[row][column] # Placeholder
    /\ distances[1][2] = <<"1">>
    /\ distances[2][3] = SentinelX

\* One of the two tree strings is malformed, one of the two trees has an
\* unlabelled leaf, or their labelled leaves differ.
PairFails(tree_i, tree_j) ==
    \/ ~TreeStrings[tree_i].parseable
    \/ ~TreeStrings[tree_j].parseable
    \/ \E t \in {tree_i, tree_j} :
           \E leaf \in LeavesOf(TreeStrings[t].net) :
               TreeStrings[t].net.label[leaf] = NoLabel
    \/ {TreeStrings[tree_i].net.label[leaf] : leaf \in LeavesOf(TreeStrings[tree_i].net)}
       # {TreeStrings[tree_j].net.label[leaf] : leaf \in LeavesOf(TreeStrings[tree_j].net)}

\* The loops of rspr_pairwise have been through cell [row][column]
\* (rows and columns counted from 1).
PairHandled(row, column) ==
    \/ drspr_pc \in {"returned", "printed"}
    \/ /\ drspr_pc \in {"pairwise", "raised"}
       /\ \/ row - 1 < pair_i
          \/ row - 1 = pair_i /\ column - 1 < pair_j

\* C14: for more than two trees, the cell of a pair i < j depends on trees
\* i and j alone.  Every pair the loops have been through has its cell
\* written, "X" exactly when one of its trees is malformed or has an
\* unlabelled leaf or the two differ in their taxa, whatever the other
\* pairs were; and such a pair never ends the calculation.
C14_PairsIndependent ==
    (Len(input_trees) > 2 /\ drspr_pc # "idle") =>
        /\ \A row \in 1..Len(input_trees) :
               \A column \in (row + 1)..Len(input_trees) :
                   PairHandled(row, column) =>
                       /\ distance_array[row][column] # Placeholder
                       /\ distance_array[row][column] = SentinelX
                          <=> PairFails(input_trees[row], input_trees[column])
        /\ drspr_pc = "raised" =>
               ~PairFails(input_trees[pair_i + 1], input_trees[pair_j + 1])

\* Of three trees the second is malformed: both its pairs are marked, the
\* pair of the first and the third tree has its distance.
C14_Witness ==
    /\ PairwiseReturned
    /\ Len(input_trees) = 3
    /\ ~TreeStrings[input_trees[2]].parseable
    /\ distances[1][2] = SentinelX
    /\ distances[2][3] = SentinelX
    /\ distances[1][3] = <<"1">>

\* The executable wrote to stderr for the two trees, or printed what
\* rspr() cannot read.
ToolFailed(tree_i, tree_j) ==
    LET ran == ToolRun(tool, ENewick(TreeStrings[tree_i].net),
                       ENewick(TreeStrings[tree_j].net))
    IN ran.err # "" \/ Rspr(ran).raised # "none"

\* C15: a failure of the executable on one comparison marks that
\* comparison with the sentinel and does not end the batch: the
\* calculation raises nothing for two or more trees, and every cell the
\* loops have been through whose pair made the executable fail holds "X".
C15_ToolFailureIsSentinel ==
    Len(input_trees) >= 2 =>
        /\ drspr_pc # "raised"
        /\ Len(input_trees) > 2 =>
               \A row \in 1..Len(input_trees) :
                   \A column \in row..Len(input_trees) :
                       ( /\ PairHandled(row, column)
                         /\ ~PairFails(input_trees[row], input_trees[column])
                         /\ ToolFailed(input_trees[row], input_trees[column]) )
                       => distance_array[row][column] = SentinelX
        /\ ( /\ Len(input_trees) = 2
             /\ drspr_pc \in {"returned", "printed"}
             /\ ~PairFails(input_trees[1], input_trees[2])
             /\ ToolFailed(input_trees[1], input_trees[2]) )
           => distances = <<SentinelX>>

\* C16: rspr() is called for two trees only when both parse, neither has
\* an unlabelled leaf and their labelled leaves are equal: every pair of
\* strings it was called with is the pair of the eNewick strings of two
\* such trees of the input, on the path of two trees (the two trees in
\* their order) and in every cell of rspr_pairwise.
C16_ToolCalledOnCheckedPairs ==
    /\ \A call \in rspr_calls :
           \E row \in 1..Len(input_trees) :
               \E column \in row..Len(input_trees) :
                   /\ ~PairFails(input_trees[row], input_trees[column])
                   /\ call = << ENewick(TreeStrings[input_trees[row]].net),
                                ENewick(TreeStrings[input_trees[column]].net) >>
    /\ (Len(input_trees) = 2 /\ rspr_calls # {}) =>
           ~PairFails(input_trees[1], input_trees[2])

\* Of three trees, rspr() was called for the two with the same leaves
\* and for each tree with itself, and not for the pairs of the tree with
\* an unlabelled leaf.
C16_Witness ==
    /\ PairwiseReturned
    /\ input_trees = <<1, 4, 2>>
    /\ Cardinality(rspr_calls) = 3
    /\ distances[1][3] # SentinelX
    /\ distances[1][2] = SentinelX
    /\ distances[2][2] = SentinelX

\* Both tree strings parse, no leaf is unlabelled, and the labelled leaves
\* of the two trees differ.
TaxaMismatch(tree_i, tree_j) ==
    /\ TreeStrings[tree_i].parseable
    /\ TreeStrings[tree_j].parseable
    /\ ~HasUnlabelledLeaf(TreeStrings[tree_i].net)
    /\ ~HasUnlabelledLeaf(TreeStrings[tree_j].net)
    /\ TreeLabelledLeaves(TreeStrings[tree_i].net)
       # TreeLabelledLeaves(TreeStrings[tree_j].net)

\* The labels that are a leaf of exactly one of the two trees.
SymmetricDifference(tree_i, tree_j) ==
    LET one == TreeLabelledLeaves(TreeStrings[tree_i].net)
        two == TreeLabelledLeaves(TreeStrings[tree_j].net)
    IN {label \in one \cup two : ~(label \in one /\ label \in two)}

\* The cluster entry is one message, which after its fixed text lists
\* exactly the given labels, each once, separated by ", ".
ListsExactly(entry, labels) ==
    /\ Len(entry) = 1
    /\ Len(entry[1]) >= 1
    /\ <<entry[1][1]>> = MissingTaxaPrefix
    /\ LET listed == SplitComma(Tail(entry[1]), <<>>)
       IN /\ Len(listed) = Cardinality(labels)
          /\ {Strip(listed[k]) : k \in 1..Len(listed)} = labels

\* C17: two parseable trees without unlabelled leaves whose labelled
\* leaves differ give the sentinel "X" and a message that lists exactly
\* the leaves of the symmetric difference, each once: as the result of
\* two trees and in every cell of more trees.
C17_MismatchListsSymmetricDifference ==
    /\ ( /\ Len(input_trees) = 2
         /\ drspr_pc \in {"returned", "printed"}
         /\ TaxaMismatch(input_trees[1], input_trees[2]) )
       => /\ distances = <<SentinelX>>
          /\ ListsExactly(clusters,
                          SymmetricDifference(input_trees[1], input_trees[2]))
    /\ Len(input_trees) > 2 =>
           \A row \in 1..Len(input_trees) :
               \A column \in row..Len(input_trees) :
                   ( /\ PairHandled(row, column)
                     /\ TaxaMismatch(input_trees[row], input_trees[column]) )
                   => /\ distance_array[row][column] = SentinelX
                      /\ ListsExactly(clusters_array[row][column],
                                      SymmetricDifference(input_trees[row],
                                                          input_trees[column]))

\* (((1,2),3),4) and (((1,2),3),5) were compared: the message lists the
\* leaves 4 and 5.
C17_Witness ==
    /\ drspr_pc = "returned"
    /\ input_trees = <<1, 3>>
    /\ distances = <<SentinelX>>
    /\ Len(clusters) = 1
    /\ Len(clusters[1]) = 5
    /\ {clusters[1][2], clusters[1][5]} = {"4", "5"}

\* C18: calculate_drspr called with fewer than two trees raises its input
\* error to the caller, and has neither constructed a Tree nor called
\* rspr().
C18_TooFewTreesRaises ==
    (drspr_pc # "idle" /\ Len(input_trees) < 2) =>
        /\ drspr_pc = "raised"
        /\ drspr_error = "MalformedNewickException"
        /\ tree_calls = 0
        /\ rspr_calls = {}
        /\ distances = <<>>
        /\ clusters = <<>>

\* calculate_drspr was called with one well-formed tree.
C18_Witness ==
    /\ drspr_pc = "raised"
    /\ input_trees = <<1>>
    /\ drspr_error = "MalformedNewickException"

\* C19: for exactly two trees the distances returned have exactly one
\* element, the distance or "X", whatever the distance is, and print_drspr
\* presents them as one distance.
C19_TwoTreesOneDistance ==
    (Len(input_trees) = 2 /\ drspr_pc \in {"returned", "printed"}) =>
        /\ Len(distances) = 1
        /\ drspr_pc = "printed" => shown = "distance"

\* The pair of strings rspr() was called with for two trees, and what the
\* executable printed for them.
TwoTreesCall == CHOOSE call \in rspr_calls : TRUE
TwoTreesOutput == StripSpace(ToolRun(tool, TwoTreesCall[1], TwoTreesCall[2]).out)

\* The text after the last "=" of a line.
AfterLastEquals(line) ==
    LET at == {k \in 1..Len(line) : line[k] = "="}
        last == CHOOSE k \in at : \A m \in at : m <= k
    IN SubSeq(line, last + 1, Len(line))

\* C20: rspr() returns as distance the text after the last "=" of the
\* final line of the output and as clusters the tokens of the
\* third-from-last line without the first two.  Stated of the call made
\* for two trees, when the output has three lines or more and "=" in its
\* final line.
C20_DistanceAfterLastEquals ==
    (Len(input_trees) = 2 /\ rspr_calls # {}) =>
        LET lines == SplitLines(TwoTreesOutput, <<>>)
            final == lines[Len(lines)]
        IN (Len(lines) >= 3 /\ \E k \in 1..Len(final) : final[k] = "=") =>
               /\ drspr_pc \in {"returned", "printed"}
               /\ distances = AfterLastEquals(final)
               /\ clusters = Tail(Tail(SplitSpace(lines[Len(lines) - 2], <<>>)))

\* C29: a set_current_selected_leaves that fails with InvalidLeaves on a
\* constructed Network changes neither the selection nor the cache, and
\* the process() that follows returns the result of the leaves that were
\* selected before, from the cache when they had been processed.
C29_FailedSelectionKeepsState ==
    [][ /\ (phase = "ready" /\ error' = "InvalidLeaves") =>
               /\ current_selected_leaves' = current_selected_leaves
               /\ trees_dict' = trees_dict
               /\ all_trees' = all_trees
        /\ (phase = "ready" /\ error = "InvalidLeaves" /\ returned' # 0) =>
               /\ current_selected_leaves \in DOMAIN trees_dict'
               /\ trees_dict'[current_selected_leaves].id = returned'
               /\ trees_dict'[current_selected_leaves].leaves
                  = current_selected_leaves
               /\ current_selected_leaves \in DOMAIN trees_dict =>
                      trees_dict' = trees_dict
      ]_vars

\* A selection of one leaf was processed, and a selection that names no
\* leaf of the network has failed after it.
C29_Witness ==
    /\ phase = "ready"
    /\ error = "InvalidLeaves"
    /\ Len(current_selected_leaves) = 1
    /\ current_selected_leaves \in DOMAIN trees_dict
    /\ Len(LabelledLeaves(original_network)) > 1

\* The labels of the labelled leaves of a tree, sorted: the selection that
\* names all its labelled leaves.
FullSelection(tree) ==
    SortedLabels({tree.label[leaf] :
                     leaf \in {u \in LeavesOf(tree) : tree.label[u] # NoLabel}})

\* C26: a reduced tree that is reduced again, with all its labelled leaves
\* selected, comes out as it went in: no leaf and no other node is
\* removed, in either order of iteration.
C26_ReductionIdempotent ==
    \A selection \in DOMAIN trees_dict :
        \A tree_newick \in DOMAIN trees_dict[selection].trees_data :
            LET entry == trees_dict[selection].trees_data[tree_newick]
            IN \A k \in 1..Len(entry.trees) :
                   \A seed \in HashSeeds :
                       ReduceTree(entry.trees[k], FullSelection(entry.trees[k]),
                                  seed)
                       = entry.trees[k]

\* C30: in the trees list rspr_pairwise returns, entry i is the parsed
\* Tree of input tree i when that tree parses, and the error text of tree
\* i when it does not, whichever other trees of the list are malformed.
C30_TreesArrayPerTree ==
    PairwiseReturned =>
        /\ Len(trees_array) = Len(input_trees)
        /\ \A k \in 1..Len(input_trees) :
               IF TreeStrings[input_trees[k]].parseable
               THEN /\ trees_array[k].isTree
                    /\ trees_array[k].net = TreeStrings[input_trees[k]].net
                    /\ trees_array[k].id = <<"t">> \o DecStr(k)
               ELSE /\ ~trees_array[k].isTree
                    /\ trees_array[k].text = ErrorText(k, input_trees[k])

\* The first and the last of three trees are malformed, the second parses.
C30_Witness ==
    /\ PairwiseReturned
    /\ Len(input_trees) = 3
    /\ ~TreeStrings[input_trees[1]].parseable
    /\ TreeStrings[input_trees[2]].parseable
    /\ ~TreeStrings[input_trees[3]].parseable
    /\ trees_array[2].isTree
    /\ ~trees_array[1].isTree

\* __init__ has returned: the graph is built.
GraphBuilt == graph_pc \in {"built", "searching", "done", "raised"}

\* The labels that occur in adjacency_dict, as keys or as neighbours.
AdjacencyLabels ==
    DictKeys(adjacency_dict)
    \cup UNION {Range(adjacency_dict[k].value) : k \in 1..Len(adjacency_dict)}

\* C23: after check_validity every valid tree has the label t{i} of its
\* place i in the input, places of invalid trees counted; every invalid
\* tree has a label too, is not in valid_trees, and its label is neither
\* in the adjacency mapping nor a node of the graph; also when the input
\* repeats a tree string.
C23_LabelsByPosition ==
    GraphBuilt =>
        LET given == TreesArray(trees_string)
        IN \A i \in 1..Len(given) :
               LET tree == given[i] \o <<";">>
               IN /\ tree \in DictKeys(tree_label_dict)
                  /\ ParsesAsNetwork(tree) =>
                         /\ tree \in Range(valid_trees)
                         /\ DictGet(tree_label_dict, tree) = Label(i)
                  /\ ~ParsesAsNetwork(tree) =>
                         /\ tree \notin Range(valid_trees)
                         /\ Label(i) \notin AdjacencyLabels
                         /\ Label(i) \notin Range(graph.nodes)

\* The places in the input of the valid trees, in order.
ValidPlaces ==
    LET given == TreesArray(trees_string)
        valid(i) == ParsesAsNetwork(given[i] \o <<";">>)
    IN SelectSeq([i \in 1..Len(given) |-> i], valid)

\* The pairs of places, from 0, in valid_trees that the executable
\* reported as neighbours.
ReportedPairs ==
    {<<PyInt(SplitComma(output_lines[k], <<>>)[1]),
       PyInt(SplitComma(output_lines[k], <<>>)[2])>> :
        k \in 1..Len(output_lines)}

\* The undirected edges of a graph.
GraphEdges(g) ==
    UNION {{{u, v} : v \in Range(Neighbors(g, u))} : u \in Range(g.nodes)}

\* C24: the graph create_graph builds has one node for every valid input
\* tree, so as many nodes as valid trees, and its edges are exactly the
\* pairs of valid trees the executable reported as neighbours.
C24_NodePerTreeEdgePerPair ==
    GraphBuilt =>
        /\ Len(graph.nodes) = Len(valid_trees)
        /\ Range(graph.nodes) = {Label(ValidPlaces[q]) : q \in 1..Len(ValidPlaces)}
        /\ GraphEdges(graph) =
               {{Label(ValidPlaces[pair[1] + 1]), Label(ValidPlaces[pair[2] + 1])} :
                    pair \in ReportedPairs}

\* C25: the adjacency mapping is undirected: when b is listed among the
\* neighbours of a, a is listed among the neighbours of b, whatever the
\* executable printed.
C25_AdjacencyUndirected ==
    GraphBuilt =>
        \A k \in 1..Len(adjacency_dict) :
            \A b \in Range(adjacency_dict[k].value) :
                /\ b \in DictKeys(adjacency_dict)
                /\ adjacency_dict[k].key \in Range(DictGet(adjacency_dict, b))

\* The outermost call of hamiltonian_cycle has returned.
SearchDone == graph_pc = "done"

\* The call returned a tuple of vertices.
Found == SearchDone /\ ~hamilton_path.isNone

\* The orders the nodes of a graph can be walked in.
Walks(g) ==
    {walk \in [1..Len(g.nodes) -> Range(g.nodes)] :
        \A a, b \in 1..Len(g.nodes) : a # b => walk[a] # walk[b]}

\* u and v are joined by an edge.
Adjacent(g, u, v) == v \in Range(Neighbors(g, u))

\* The graph is a simple path: its edges are exactly those between
\* consecutive nodes of a walk through all its nodes.
IsSimplePath(g) ==
    \E walk \in Walks(g) :
        GraphEdges(g) = {{walk[a], walk[a + 1]} : a \in 1..(Len(g.nodes) - 1)}

\* C21: a result that is not None on a graph of N nodes is a sequence of
\* N+1 vertices from the start vertex back to the start vertex whose first
\* N vertices are distinct and are all the nodes, with consecutive vertices
\* adjacent; on a graph that is a simple path the result is None.
C21_ResultIsHamiltonianCycle ==
    /\ Found =>
           LET cycle == hamilton_path.path
               n == Len(graph.nodes)
           IN /\ Len(cycle) = n + 1
              /\ cycle[1] = root
              /\ cycle[n + 1] = root
              /\ \A a, b \in 1..n : a # b => cycle[a] # cycle[b]
              /\ {cycle[a] : a \in 1..n} = Range(graph.nodes)
              /\ \A a \in 1..n : Adjacent(graph, cycle[a], cycle[a + 1])
    /\ SearchDone /\ IsSimplePath(graph) => hamilton_path.isNone

\* The graph has a Hamiltonian cycle: at least three nodes, and a walk
\* through all of them whose consecutive nodes, and last and first nodes,
\* are adjacent.
HasHamiltonianCycle(g) ==
    /\ Len(g.nodes) >= 3
    /\ \E walk \in Walks(g) :
           /\ \A a \in 1..(Len(g.nodes) - 1) : Adjacent(g, walk[a], walk[a + 1])
           /\ Adjacent(g, walk[Len(g.nodes)], walk[1])

\* C22: hamiltonian_cycle returns None only when the graph has no
\* Hamiltonian cycle: on every graph of three or more nodes that has one,
\* a cycle is returned, from whichever node and in whichever order of the
\* neighbours.
C22_NoneOnlyWithoutCycle ==
    SearchDone /\ HasHamiltonianCycle(graph) => ~hamilton_path.isNone

\* A cycle is found in the graph of __main__ from its first node, the
\* neighbours taken in the order the edges were added: the first branch,
\* t1 t2 t3 t4 t5 t6, is a dead end.
C22_Witness ==
    /\ Found
    /\ num_nodes = 6
    /\ root = Label(1)
    /\ Neighbors(graph, Label(1)) = <<Label(2), Label(3), Label(4)>>

\* In every active call the path has no repeated vertex, is as long as
\* the call is deep (one shorter before the call's first line has added
\* its vertex), and is no longer than the number of nodes.
PathsGrowWithoutRepeats ==
    \A depth \in 1..Len(stack) :
        LET call == stack[depth]
        IN /\ \A a, b \in 1..Len(call.path) : a # b => call.path[a] # call.path[b]
           /\ Len(call.path) = IF call.k = 0 THEN depth - 1 ELSE depth
           /\ call.k = 0 => call.current_vertex \notin Range(call.path)
           /\ Len(call.path) <= num_nodes
           /\ Len(stack) <= num_nodes

\* C27: hamiltonian_cycle terminates on every graph from every start
\* vertex: in every call the path has no repeated vertex, grows by one
\* vertex per level of the recursion and never has more vertices than the
\* graph has nodes, and every call that is started returns.
C27_Terminates ==
    /\ []PathsGrowWithoutRepeats
    /\ (graph_pc = "searching") ~> SearchDone

\* The search of the graph of __main__ from its last node has returned.
C27_Witness ==
    /\ SearchDone
    /\ num_nodes = 6
    /\ root = Label(6)

\* C28: a cycle hamiltonian_cycle returns goes over no undirected edge
\* twice; no cycle is returned for a graph of fewer than three nodes.
C28_NoEdgeTwice ==
    Found =>
        LET cycle == hamilton_path.path
        IN /\ \A a, b \in 1..(Len(cycle) - 1) :
                  a # b => {cycle[a], cycle[a + 1]} # {cycle[b], cycle[b + 1]}
           /\ num_nodes >= 3

====
